---- MODULE Spec2Model ----
(***************************************************************************)
(* gcli2api: the multi-credential dispatch engine.                         *)
(*                                                                         *)
(* The model follows internal/codeassist/multiclient.go (the MultiClient   *)
(* with the cross-unit retry budget: NewMultiClient with projectMap,       *)
(* pickStart, GenerateContent, GenerateContentStream,                      *)
(* getOrDiscoverProjectID, isRetryable) and internal/codeassist/client.go  *)
(* (CaClient.GenerateContent, CaClient.GenerateContentStream,              *)
(* parseSSEStream).                                                        *)
(*                                                                         *)
(* Strings are sequences of one-character strings, so that fmt.Errorf,     *)
(* strings.Contains and strings.ToLower are computed as the code computes  *)
(* them.                                                                   *)
(***************************************************************************)
EXTENDS Integers, Sequences, FiniteSets, TLC

(***************************************************************************)
(* Bounds of the model.                                                    *)
(***************************************************************************)
\* largest pool (number of units) explored
MaxUnits == 2
\* largest requestMaxRetries explored (the smallest is -1: no attempt at all)
MaxRetries == 1
\* largest number of SSE data events one upstream body carries
MaxEvents == 2
\* number of goroutines calling pickStart at the same time
MaxCallers == 3

(***************************************************************************)
(* Program constants.                                                      *)
(***************************************************************************)
\* out := make(chan gemini.GeminiAPIResponse, 16) in the dispatcher
OuterOutCap == 16
\* out := make(chan gemini.GeminiAPIResponse, 16) in CaClient
UpOutCap == 16
\* errs := make(chan error, 1) in CaClient
UpErrsCap == 1

(***************************************************************************)
(* Strings.                                                                *)
(***************************************************************************)
UpperChars == <<"A","B","C","D","E","F","G","H","I","J","K","L","M",
                "N","O","P","Q","R","S","T","U","V","W","X","Y","Z">>
LowerChars == <<"a","b","c","d","e","f","g","h","i","j","k","l","m",
                "n","o","p","q","r","s","t","u","v","w","x","y","z">>
DigitChars == <<"0","1","2","3","4","5","6","7","8","9">>

\* unicode.ToLower on one character
ToLowerChar(c) ==
    IF \E i \in 1..26 : UpperChars[i] = c
    THEN LowerChars[CHOOSE i \in 1..26 : UpperChars[i] = c]
    ELSE c

\* strings.ToLower
ToLower(s) == [i \in 1..Len(s) |-> ToLowerChar(s[i])]

\* strings.Contains(s, sub)
Contains(s, sub) ==
    \E i \in 0..(Len(s) - Len(sub)) :
        \A j \in 1..Len(sub) : s[i + j] = sub[j]

\* the %d verb of fmt for a non-negative integer
RECURSIVE Digits(_)
Digits(n) ==
    IF n < 10 THEN <<DigitChars[n + 1]>>
    ELSE Digits(n \div 10) \o <<DigitChars[(n % 10) + 1]>>

\* string literals of the source
StrStatus401 == <<"s","t","a","t","u","s"," ","4","0","1">>
StrStatus403 == <<"s","t","a","t","u","s"," ","4","0","3">>
StrStatus429 == <<"s","t","a","t","u","s"," ","4","2","9">>
StrStatus5 == <<"s","t","a","t","u","s"," ","5">>
StrTimeout == <<"t","i","m","e","o","u","t">>
StrConnReset == <<"c","o","n","n","e","c","t","i","o","n"," ","r","e","s","e","t">>
StrTempFailure == <<"t","e","m","p","o","r","a","r","y"," ","f","a","i","l","u","r","e">>
StrUnexpectedEofLower == <<"u","n","e","x","p","e","c","t","e","d"," ","e","o","f">>
StrUpstreamStatus == <<"u","p","s","t","r","e","a","m"," ","s","t","a","t","u","s"," ">>
StrColonSpace == <<":"," ">>

(***************************************************************************)
(* Response bodies the upstream may send with a non-2xx status.            *)
(***************************************************************************)
BodyText(b) ==
    CASE b = "unauthorized" -> <<"u","n","a","u","t","h","o","r","i","z","e","d">>
      [] b = "boom" -> <<"b","o","o","m">>
      [] b = "gateway timeout" ->
            <<"g","a","t","e","w","a","y"," ","t","i","m","e","o","u","t">>

(***************************************************************************)
(* Error values.  kind says which Go error it is; a "status" error is the  *)
(* fmt.Errorf("upstream status %d: %s", code, body) of CaClient.           *)
(***************************************************************************)
NoErr == [kind |-> "nil", code |-> 0, body |-> "boom"]
ErrCanceled == [kind |-> "canceled", code |-> 0, body |-> "boom"]
ErrDeadline == [kind |-> "deadline", code |-> 0, body |-> "boom"]
ErrEOF == [kind |-> "EOF", code |-> 0, body |-> "boom"]
ErrUnexpectedEOF == [kind |-> "unexpectedEOF", code |-> 0, body |-> "boom"]
ErrConnReset == [kind |-> "connreset", code |-> 0, body |-> "boom"]
ErrDiscovery == [kind |-> "discovery", code |-> 0, body |-> "boom"]
ErrEmptyEnvelope == [kind |-> "emptyEnvelope", code |-> 0, body |-> "boom"]
ErrTimeout == [kind |-> "timeout", code |-> 0, body |-> "boom"]
ErrTempFailure == [kind |-> "tempfailure", code |-> 0, body |-> "boom"]
ErrStatus(code, b) == [kind |-> "status", code |-> code, body |-> b]

\* err.Error()
ErrorString(e) ==
    CASE e.kind = "status" ->
            StrUpstreamStatus \o Digits(e.code) \o StrColonSpace \o BodyText(e.body)
      [] e.kind = "canceled" ->
            <<"c","o","n","t","e","x","t"," ","c","a","n","c","e","l","e","d">>
      [] e.kind = "deadline" ->
            <<"c","o","n","t","e","x","t"," ","d","e","a","d","l","i","n","e"," ",
              "e","x","c","e","e","d","e","d">>
      [] e.kind = "EOF" -> <<"E","O","F">>
      [] e.kind = "unexpectedEOF" ->
            <<"u","n","e","x","p","e","c","t","e","d"," ","E","O","F">>
      [] e.kind = "connreset" ->
            <<"r","e","a","d",":"," ","c","o","n","n","e","c","t","i","o","n"," ",
              "r","e","s","e","t"," ","b","y"," ","p","e","e","r">>
      [] e.kind = "timeout" ->
            <<"n","e","t","/","h","t","t","p",":"," ","T","L","S"," ","h","a","n","d",
              "s","h","a","k","e"," ","t","i","m","e","o","u","t">>
      [] e.kind = "tempfailure" ->
            <<"l","o","o","k","u","p",":"," ","T","e","m","p","o","r","a","r","y"," ",
              "f","a","i","l","u","r","e"," ","i","n"," ","n","a","m","e"," ",
              "r","e","s","o","l","u","t","i","o","n">>
      [] e.kind = "discovery" ->
            <<"f","a","i","l"," ","t","o"," ","d","i","s","c","o","v","e","r","e","d",
              " ","p","r","o","j","e","c","t">>
      [] e.kind = "emptyEnvelope" ->
            <<"e","m","p","t","y"," ","r","e","s","p","o","n","s","e"," ",
              "e","n","v","e","l","o","p","e">>
      [] OTHER -> <<>>

\* a mutant of isRetryable: 4xx other than 401 is never rotated on, 403 and
\* 429 included
isRetryableOnly401(err) ==
    /\ err.kind # "nil"
    /\ \/ err.kind = "deadline"
       \/ err.kind = "EOF"
       \/ Contains(ErrorString(err), StrStatus401)
       \/ Contains(ErrorString(err), StrStatus5)
       \/ Contains(ToLower(ErrorString(err)), StrTimeout)
       \/ Contains(ToLower(ErrorString(err)), StrConnReset)
       \/ Contains(ToLower(ErrorString(err)), StrTempFailure)
       \/ Contains(ToLower(ErrorString(err)), StrUnexpectedEofLower)

\* a mutant of isRetryable: the transport substrings are looked for in s, not
\* in strings.ToLower(s)
isRetryableCaseSensitive(err) ==
    IF err.kind = "nil" THEN FALSE
    ELSE IF err.kind = "deadline" THEN TRUE
    ELSE IF err.kind = "EOF" THEN TRUE
    ELSE IF \/ Contains(ErrorString(err), StrStatus401)
            \/ Contains(ErrorString(err), StrStatus403)
            \/ Contains(ErrorString(err), StrStatus429) THEN TRUE
    ELSE IF Contains(ErrorString(err), StrStatus5) THEN TRUE
    ELSE IF \/ Contains(ErrorString(err), StrTimeout)
            \/ Contains(ErrorString(err), StrConnReset)
            \/ Contains(ErrorString(err), StrTempFailure)
            \/ Contains(ErrorString(err), StrUnexpectedEofLower) THEN TRUE
    ELSE FALSE

\* isRetryable(err)
isRetryable(err) ==
    IF err.kind = "nil" THEN FALSE
    ELSE IF err.kind = "deadline" THEN TRUE
    ELSE IF err.kind = "EOF" THEN TRUE
    ELSE IF \/ Contains(ErrorString(err), StrStatus401)
            \/ Contains(ErrorString(err), StrStatus403)
            \/ Contains(ErrorString(err), StrStatus429) THEN TRUE
    ELSE IF Contains(ErrorString(err), StrStatus5) THEN TRUE
    ELSE IF \/ Contains(ToLower(ErrorString(err)), StrTimeout)
            \/ Contains(ToLower(ErrorString(err)), StrConnReset)
            \/ Contains(ToLower(ErrorString(err)), StrTempFailure)
            \/ Contains(ToLower(ErrorString(err)), StrUnexpectedEofLower) THEN TRUE
    ELSE FALSE

(***************************************************************************)
(* What one upstream generation call does.  The reply is drawn when the    *)
(* call is made.  do: the outcome of httpClient.Do; status, body: the      *)
(* HTTP reply; lines, term: the SSE body of a 2xx streaming reply and how  *)
(* reading it ends; env: whether the unary 2xx envelope has a response.    *)
(***************************************************************************)
\* m well-formed data lines
DataLines(m) == [i \in 1..m |-> "data"]

\* a body with a comment and a malformed data line around its data line
NoisyLines == <<"comment", "data", "bad">>

SseBodies == {DataLines(m) : m \in 0..MaxEvents}

ErrorReplies ==
    {<<401, "unauthorized">>, <<403, "boom">>, <<429, "boom">>, <<500, "boom">>,
     <<503, "boom">>, <<400, "boom">>, <<404, "boom">>, <<400, "gateway timeout">>}

Reply(do, status, body, lines, term, env) ==
    [do |-> do, status |-> status, body |-> body, lines |-> lines, term |-> term,
     env |-> env]

StreamErrorReplies == {<<401, "unauthorized">>, <<400, "boom">>}

StreamReplies ==
    {Reply("ok", r[1], r[2], <<>>, "eof", "resp") : r \in StreamErrorReplies}
    \cup {Reply("ok", 200, "boom", l, "eof", "resp") : l \in SseBodies}
    \cup {Reply("ok", 200, "boom", DataLines(m), "unexpectedEOF", "resp") : m \in {0, 1}}
    \cup {Reply("ok", 200, "boom", NoisyLines, "eof", "resp")}

UnaryReplies ==
    {Reply("connreset", 0, "boom", <<>>, "eof", "resp")}
    \cup {Reply("ok", r[1], r[2], <<>>, "eof", "resp") : r \in ErrorReplies}
    \cup {Reply("ok", 200, "boom", <<>>, "eof", e) : e \in {"resp", "nil"}}

NoReply == Reply("none", 0, "boom", <<>>, "eof", "resp")

(***************************************************************************)
(* State.                                                                  *)
(***************************************************************************)
VARIABLES
    n,          \* len(mc.entries)
    retries,    \* mc.retries
    project,    \* the project argument of the dispatch ("" = resolve per unit)
    mode,       \* which dispatch runs: "stream" or "unary"
    rr,         \* mc.rr
    slot,       \* entry.projectID of every unit ("" = never stored)
    store,      \* mc.store: [present, rr, pid]; rr = -1: no counter row
    ctx,        \* the caller's context: "live", "canceled" or "deadline"
    cancelPc,   \* where the dispatcher was when the context ended ("" = it has not)
    cancelAt,   \* how many attempts had begun when the context ended (-1 = it has not)
    pc,         \* where the dispatcher is
    start,      \* start := mc.pickStart()
    k,          \* the loop variable k
    lastErr,    \* lastErr
    sentAny,    \* sentAny
    upErrsNil,  \* upErrs = nil
    pend,       \* the value of the send the dispatcher is at (g, or the error)
    path,       \* which way the dispatcher ended: "", "clean", "uperr", "ctx", "exhausted"
    up,         \* the CaClient stream goroutine of the current attempt
    out,        \* the outer events channel: values sent and not yet received
    outClosed,  \* close(out) has run
    errsClosed, \* close(errs) has run
    recv,       \* the events the caller has received, in order
    errRecv,    \* the errors the caller has received, in order
    attempts,   \* the unit of every loop iteration, in order
    resolved,   \* the error of every iteration's project-id resolution (nil: none)
    calls,      \* every generation call made: [k, unit, reply]
    ret,        \* what the unary dispatch returned: [resp, err]
    cls,        \* one isRetryable call: [err, res]; res = "none" before it returns
    pk,         \* the goroutines calling pickStart: [pc, post, start] of each
    rs,         \* the goroutines resolving unit 0's project id:
                \* [pc, pid, err, discovered, after] of each
    nm,         \* a run of NewMultiClient: [pc, sources, projectMap, i, entries, err]
    hc,         \* one CaClient call: [op, pc, transportRetries, attempt, sends, reply, err]
    tk,         \* the credential file, SaveRawTokenAtomic and a reader:
                \* [link, files, tmps, pc, ver, tmp, saves, err, rpc, rino, got, allowed]
    ts,         \* a persisting token source: [pc, persist, path, current, file, calls, last]
    gq,         \* a Gemini request: [pc, data, req, payload]
    lim,        \* the concurrency limiter: [cap, sem, st, seen]
    au,         \* one request at the routed handlers: [pc, key, req, status, dispatched, listed]
    hd,         \* the stream handler: [pc, frames, errsNil, wfail, ctxAtReturn]
    rst,        \* the processes run in turn: [pc, life, picks, starts, base, ...]
    dp,         \* one run of DiscoverProjectID: [pc, loads, onboards, tier, now, ...]
    ss,         \* parseSSEStream on a body: [pc, lines, pos, calls, term, err]
    cn          \* the consumer of the stream tests: [pc]

cfgVars == <<n, retries, project, mode>>
mcVars == <<rr, slot, store>>
dispVars == <<pc, start, k, lastErr, sentAny, upErrsNil, pend, path>>
outerVars == <<out, outClosed, errsClosed>>
callerVars == <<recv, errRecv>>
histVars == <<attempts, resolved, calls>>
ctxVars == <<ctx, cancelPc, cancelAt>>
\* the state of one dispatch
dispatchVars ==
    <<cfgVars, mcVars, ctxVars, dispVars, up, outerVars, callerVars, histVars, ret>>
\* the state of the components a dispatch does not touch
sideVars == <<cls, pk, rs, nm, hc, tk, ts, gq, lim, au, hd, rst, dp, ss, cn>>
\* sideVars without the named component
clsOthers == <<pk, rs, nm, hc, tk, ts, gq, lim, au, hd, rst, dp, ss, cn>>
pkOthers == <<cls, rs, nm, hc, tk, ts, gq, lim, au, hd, rst, dp, ss, cn>>
rsOthers == <<cls, pk, nm, hc, tk, ts, gq, lim, au, hd, rst, dp, ss, cn>>
nmOthers == <<cls, pk, rs, hc, tk, ts, gq, lim, au, hd, rst, dp, ss, cn>>
hcOthers == <<cls, pk, rs, nm, tk, ts, gq, lim, au, hd, rst, dp, ss, cn>>
tkOthers == <<cls, pk, rs, nm, hc, ts, gq, lim, au, hd, rst, dp, ss, cn>>
tsOthers == <<cls, pk, rs, nm, hc, tk, gq, lim, au, hd, rst, dp, ss, cn>>
gqOthers == <<cls, pk, rs, nm, hc, tk, ts, lim, au, hd, rst, dp, ss, cn>>
limOthers == <<cls, pk, rs, nm, hc, tk, ts, gq, au, hd, rst, dp, ss, cn>>
auOthers == <<cls, pk, rs, nm, hc, tk, ts, gq, lim, hd, rst, dp, ss, cn>>
hdOthers == <<cls, pk, rs, nm, hc, tk, ts, gq, lim, au, rst, dp, ss, cn>>
rstOthers == <<cls, pk, rs, nm, hc, tk, ts, gq, lim, au, hd, dp, ss, cn>>
dpOthers == <<cls, pk, rs, nm, hc, tk, ts, gq, lim, au, hd, rst, ss, cn>>
ssOthers == <<cls, pk, rs, nm, hc, tk, ts, gq, lim, au, hd, rst, dp, cn>>
cnOthers == <<cls, pk, rs, nm, hc, tk, ts, gq, lim, au, hd, rst, dp, ss>>
vars == <<dispatchVars, sideVars>>

\* a mutant of Total: one attempt too many
TotalOffByOne == retries + 2

\* total := mc.retries + 1
Total == retries + 1

\* ctx.Err()
CtxErr == IF ctx = "deadline" THEN ErrDeadline ELSE ErrCanceled

NoResp == [unit |-> -1]
IdleUp == [pc |-> "idle", k |-> -1, reply |-> NoReply, pos |-> 0, out |-> <<>>,
           outClosed |-> FALSE, errs |-> <<>>, errsClosed |-> FALSE, sent |-> <<>>,
           err |-> NoErr]

(***************************************************************************)
(* pickStart and project-id resolution.                                    *)
(***************************************************************************)
\* v := atomic.AddUint64(&mc.rr, 1) - 1; the store write is best-effort
pickStart(writeOk) ==
    /\ start' = rr % n
    /\ rr' = rr + 1
    /\ store' = IF store.present /\ writeOk THEN [store EXCEPT !.rr = rr + 1] ELSE store

\* what DiscoverProjectID may return: (pid, err)
DiscoverOutcomes ==
    IF ctx # "live" THEN {[pid |-> "", err |-> CtxErr]}
    ELSE {[pid |-> "pd", err |-> NoErr], [pid |-> "", err |-> NoErr],
          [pid |-> "", err |-> ErrStatus(500, "boom")]}

\* whether mc.store.GetProjectID answers without error
LookupOutcomes(u) ==
    IF store.present /\ store.pid[u] # "" /\ ctx # "live" THEN BOOLEAN ELSE {TRUE}

\* getOrDiscoverProjectID(ctx, e) for unit u: the (pid, err) it returns and the
\* slot and the store it leaves, given the store's and the discovery's answers
getOrDiscoverProjectID(u, lookupOk, d) ==
    IF slot[u] # ""
    THEN [pid |-> slot[u], err |-> NoErr, slot |-> slot, store |-> store]
    ELSE IF store.present /\ lookupOk /\ store.pid[u] # ""
    THEN [pid |-> store.pid[u], err |-> NoErr,
          slot |-> [slot EXCEPT ![u] = store.pid[u]], store |-> store]
    ELSE IF d.err.kind # "nil"
    THEN [pid |-> "", err |-> d.err, slot |-> slot, store |-> store]
    ELSE IF d.pid = ""
    THEN [pid |-> "", err |-> ErrDiscovery, slot |-> slot, store |-> store]
    ELSE [pid |-> d.pid, err |-> NoErr,
          slot |-> [slot EXCEPT ![u] = d.pid],
          store |-> IF store.present THEN [store EXCEPT !.pid[u] = d.pid] ELSE store]

\* prj := project; if prj == "" { pid, err := mc.getOrDiscoverProjectID(ctx, e) ... }
Resolutions(u) ==
    IF project # ""
    THEN {[pid |-> project, err |-> NoErr, slot |-> slot, store |-> store]}
    ELSE {getOrDiscoverProjectID(u, ok, d) :
            ok \in LookupOutcomes(u), d \in DiscoverOutcomes}

(***************************************************************************)
(* CaClient.GenerateContentStream: the goroutine behind one upstream       *)
(* stream.  Its errs channel has room for its single send, so the send     *)
(* never blocks; the deferred calls run close(errs), then close(out).      *)
(***************************************************************************)
\* the error a non-2xx reply or a failed Do is turned into
ReplyError(r) ==
    IF r.do # "ok" THEN ErrConnReset ELSE ErrStatus(r.status, r.body)

\* errs <- err; return (errs has room for the goroutine's single send)
UpFail(e) ==
    /\ Len(up.errs) < UpErrsCap
    /\ up' = [up EXCEPT !.pc = "close_errs", !.errs = Append(up.errs, e), !.err = e]

\* resp, err := c.httpClient.Do(httpReq), and the status check
UpDo ==
    /\ up.pc = "do"
    /\ IF ctx # "live" THEN UpFail(CtxErr)
       ELSE IF up.reply.do # "ok" \/ up.reply.status < 200 \/ up.reply.status >= 300
       THEN UpFail(ReplyError(up.reply))
       ELSE up' = [up EXCEPT !.pc = "read"]
    /\ UNCHANGED <<sideVars, cfgVars, mcVars, ctxVars, dispVars, outerVars, callerVars, histVars, ret>>

\* one br.Scan() of parseSSEStream with the line's handling; the callback
\* sends the parsed response on out
UpReadLine ==
    /\ up.pc = "read"
    /\ up.pos < Len(up.reply.lines)
    /\ IF ctx # "live" THEN UpFail(CtxErr)
       ELSE IF up.reply.lines[up.pos + 1] = "data"
       THEN /\ Len(up.out) < UpOutCap
            /\ up' = [up EXCEPT !.pos = up.pos + 1,
                        !.out = Append(up.out, [k |-> up.k, i |-> up.pos + 1]),
                        !.sent = Append(up.sent, [k |-> up.k, i |-> up.pos + 1])]
       ELSE up' = [up EXCEPT !.pos = up.pos + 1]
    /\ UNCHANGED <<sideVars, cfgVars, mcVars, ctxVars, dispVars, outerVars, callerVars, histVars, ret>>

\* br.Scan() returns false: the body ended, or reading it failed
UpReadEnd ==
    /\ up.pc = "read"
    /\ up.pos = Len(up.reply.lines)
    /\ \/ /\ up.reply.term = "eof"
          /\ up' = [up EXCEPT !.pc = "close_errs"]
       \/ /\ up.reply.term # "eof"
          /\ UpFail(ErrUnexpectedEOF)
       \/ /\ ctx # "live"
          /\ UpFail(CtxErr)
    /\ UNCHANGED <<sideVars, cfgVars, mcVars, ctxVars, dispVars, outerVars, callerVars, histVars, ret>>

\* defer close(errs)
UpCloseErrs ==
    /\ up.pc = "close_errs"
    /\ up' = [up EXCEPT !.pc = "close_out", !.errsClosed = TRUE]
    /\ UNCHANGED <<sideVars, cfgVars, mcVars, ctxVars, dispVars, outerVars, callerVars, histVars, ret>>

\* defer close(out)
UpCloseOut ==
    /\ up.pc = "close_out"
    /\ up' = [up EXCEPT !.pc = "exit", !.outClosed = TRUE]
    /\ UNCHANGED <<sideVars, cfgVars, mcVars, ctxVars, dispVars, outerVars, callerVars, histVars, ret>>

(***************************************************************************)
(* MultiClient.GenerateContentStream: the dispatcher goroutine.            *)
(* A select with several ready cases takes any of them.                    *)
(***************************************************************************)
\* start := mc.pickStart(); total := mc.retries + 1
SPickStart ==
    /\ pc = "init"
    /\ pickStart(TRUE)
    /\ k' = 0
    /\ pc' = "loop"
    /\ UNCHANGED <<sideVars, cfgVars, slot, ctxVars, lastErr, sentAny, upErrsNil, pend, path, up,
                   outerVars, callerVars, histVars, ret>>

\* a mutant of RotateOnResolutionFailure: the failed attempt is not counted
RotateOnResolutionFailureStays(err) ==
    lastErr' = err /\ k' = k

\* if err != nil { lastErr = err; continue } after getOrDiscoverProjectID
RotateOnResolutionFailure(err) ==
    lastErr' = err /\ k' = k + 1

\* a mutant of the rotation test: sentAny is not consulted
RotatesIgnoringSentAny(err) ==
    k < Total - 1 /\ isRetryable(err)

\* if !sentAny && k < total-1 && isRetryable(err)
Rotates(err) ==
    ~sentAny /\ k < Total - 1 /\ isRetryable(err)

\* one iteration of the attempt loop up to the start of the upstream stream:
\* project-id resolution (a failure rotates), then
\* upOut, upErrs := e.ca.GenerateContentStream(ctx, model, prj, req)
SAttempt ==
    /\ pc = "loop"
    /\ k < Total
    /\ LET u == (start + k) % n IN
       \E r \in Resolutions(u) :
          /\ slot' = r.slot
          /\ store' = r.store
          /\ attempts' = Append(attempts, u)
          /\ resolved' = Append(resolved, r.err)
          /\ IF r.err.kind # "nil"
             THEN /\ RotateOnResolutionFailure(r.err)
                  /\ UNCHANGED <<pc, sentAny, upErrsNil, up, calls>>
             ELSE \E reply \in StreamReplies :
                  /\ up' = [IdleUp EXCEPT !.pc = "do", !.k = k, !.reply = reply]
                  /\ calls' = Append(calls, [k |-> k, unit |-> u, reply |-> reply])
                  /\ sentAny' = FALSE
                  /\ upErrsNil' = FALSE
                  /\ pc' = "select"
                  /\ UNCHANGED <<k, lastErr>>
    /\ UNCHANGED <<sideVars, cfgVars, rr, ctxVars, start, pend, path, outerVars, callerVars, ret>>

\* case g, ok := <-upOut with ok: sentAny = true, then out <- g
SRecvEvent ==
    /\ pc = "select"
    /\ up.out # <<>>
    /\ up' = [up EXCEPT !.out = Tail(up.out)]
    /\ sentAny' = TRUE
    /\ pend' = Head(up.out)
    /\ pc' = "forward"
    /\ UNCHANGED <<sideVars, cfgVars, mcVars, ctxVars, start, k, lastErr, upErrsNil, path,
                   outerVars, callerVars, histVars, ret>>

\* out <- g
SForward ==
    /\ pc = "forward"
    /\ Len(out) < OuterOutCap
    /\ out' = Append(out, pend)
    /\ pc' = "select"
    /\ UNCHANGED <<sideVars, cfgVars, mcVars, ctxVars, start, k, lastErr, sentAny, upErrsNil, pend,
                   path, up, outClosed, errsClosed, callerVars, histVars, ret>>

\* case g, ok := <-upOut with !ok: look for a pending error when upErrs != nil,
\* else close cleanly
SUpOutClosed ==
    /\ pc = "select"
    /\ up.out = <<>>
    /\ up.outClosed
    /\ IF ~upErrsNil
       THEN pc' = "pending" /\ UNCHANGED path
       ELSE pc' = "close_out" /\ path' = "clean"
    /\ UNCHANGED <<sideVars, cfgVars, mcVars, ctxVars, start, k, lastErr, sentAny, upErrsNil, pend,
                   up, outerVars, callerVars, histVars, ret>>

\* the inner select, case e2, ok2 := <-upErrs with ok2 && e2 != nil
SPendingErr ==
    /\ pc = "pending"
    /\ up.errs # <<>>
    /\ up' = [up EXCEPT !.errs = Tail(up.errs)]
    /\ pend' = Head(up.errs)
    /\ path' = "uperr"
    /\ pc' = "send_err"
    /\ UNCHANGED <<sideVars, cfgVars, mcVars, ctxVars, start, k, lastErr, sentAny, upErrsNil,
                   outerVars, callerVars, histVars, ret>>

\* the inner select, case e2, ok2 := <-upErrs with !ok2: no error pending
SPendingNone ==
    /\ pc = "pending"
    /\ up.errs = <<>>
    /\ up.errsClosed
    /\ path' = "clean"
    /\ pc' = "close_out"
    /\ UNCHANGED <<sideVars, cfgVars, mcVars, ctxVars, start, k, lastErr, sentAny, upErrsNil, pend,
                   up, outerVars, callerVars, histVars, ret>>

\* the inner select, case <-ctx.Done()
SPendingCtx ==
    /\ pc = "pending"
    /\ ctx # "live"
    /\ pend' = CtxErr
    /\ path' = "ctx"
    /\ pc' = "send_err"
    /\ UNCHANGED <<sideVars, cfgVars, mcVars, ctxVars, start, k, lastErr, sentAny, upErrsNil, up,
                   outerVars, callerVars, histVars, ret>>

\* case err, ok := <-upErrs with an error: rotate, or deliver it
SRecvUpErr ==
    /\ pc = "select"
    /\ ~upErrsNil
    /\ up.errs # <<>>
    /\ up' = [up EXCEPT !.errs = Tail(up.errs)]
    /\ IF Rotates(Head(up.errs))
       THEN /\ lastErr' = Head(up.errs)
            /\ k' = k + 1
            /\ pc' = "loop"
            /\ UNCHANGED <<pend, path>>
       ELSE /\ pend' = Head(up.errs)
            /\ path' = "uperr"
            /\ pc' = "send_err"
            /\ UNCHANGED <<lastErr, k>>
    /\ UNCHANGED <<sideVars, cfgVars, mcVars, ctxVars, start, sentAny, upErrsNil, outerVars,
                   callerVars, histVars, ret>>

\* a mutant of SUpErrsClosed: the closed error channel is taken for the end of
\* the stream, and the dispatcher closes cleanly without draining upOut
SUpErrsClosedReturns ==
    /\ pc = "select"
    /\ ~upErrsNil
    /\ up.errs = <<>>
    /\ up.errsClosed
    /\ upErrsNil' = TRUE
    /\ path' = "clean"
    /\ pc' = "close_out"
    /\ UNCHANGED <<sideVars, cfgVars, mcVars, ctxVars, start, k, lastErr, sentAny, pend,
                   up, outerVars, callerVars, histVars, ret>>

\* case err, ok := <-upErrs with !ok: upErrs = nil; continue
SUpErrsClosed ==
    /\ pc = "select"
    /\ ~upErrsNil
    /\ up.errs = <<>>
    /\ up.errsClosed
    /\ upErrsNil' = TRUE
    /\ UNCHANGED <<sideVars, cfgVars, mcVars, ctxVars, pc, start, k, lastErr, sentAny, pend, path,
                   up, outerVars, callerVars, histVars, ret>>

\* a mutant of SCtxDone: close(out) runs before the context error is sent
SCtxDoneClosesFirst ==
    /\ pc = "select"
    /\ ctx # "live"
    /\ pend' = CtxErr
    /\ path' = "ctx"
    /\ outClosed' = TRUE
    /\ pc' = "send_last"
    /\ UNCHANGED <<sideVars, cfgVars, mcVars, ctxVars, start, k, lastErr, sentAny, upErrsNil, up,
                   out, errsClosed, callerVars, histVars, ret>>

\* case <-ctx.Done()
SCtxDone ==
    /\ pc = "select"
    /\ ctx # "live"
    /\ pend' = CtxErr
    /\ path' = "ctx"
    /\ pc' = "send_err"
    /\ UNCHANGED <<sideVars, cfgVars, mcVars, ctxVars, start, k, lastErr, sentAny, upErrsNil, up,
                   outerVars, callerVars, histVars, ret>>

\* close(out) after the error was delivered, or on a clean end
SCloseOut ==
    /\ pc = "close_out"
    /\ outClosed' = TRUE
    /\ pc' = "close_errs"
    /\ UNCHANGED <<sideVars, cfgVars, mcVars, ctxVars, start, k, lastErr, sentAny, upErrsNil, pend,
                   path, up, out, errsClosed, callerVars, histVars, ret>>

\* close(errs); return
SCloseErrs ==
    /\ pc = "close_errs"
    /\ errsClosed' = TRUE
    /\ pc' = "done"
    /\ UNCHANGED <<sideVars, cfgVars, mcVars, ctxVars, start, k, lastErr, sentAny, upErrsNil, pend,
                   path, up, out, outClosed, callerVars, histVars, ret>>

\* a mutant of SExhausted: lastErr is dropped, both channels are closed
SExhaustedDropsError ==
    /\ pc = "loop"
    /\ k >= Total
    /\ outClosed' = TRUE
    /\ UNCHANGED pend /\ path' = (IF lastErr.kind # "nil" THEN "exhausted" ELSE "clean")
    /\ pc' = "close_errs"
    /\ UNCHANGED <<sideVars, cfgVars, mcVars, ctxVars, start, k, lastErr, sentAny, upErrsNil, up,
                   out, errsClosed, callerVars, histVars, ret>>

\* after the loop: if lastErr != nil { close(out); errs <- lastErr; close(errs) }
\* else { close(out); close(errs) }
SExhausted ==
    /\ pc = "loop"
    /\ k >= Total
    /\ outClosed' = TRUE
    /\ IF lastErr.kind # "nil"
       THEN pend' = lastErr /\ path' = "exhausted" /\ pc' = "send_last"
       ELSE UNCHANGED pend /\ path' = "clean" /\ pc' = "close_errs"
    /\ UNCHANGED <<sideVars, cfgVars, mcVars, ctxVars, start, k, lastErr, sentAny, upErrsNil, up,
                   out, errsClosed, callerVars, histVars, ret>>

(***************************************************************************)
(* The caller of the stream and the caller's context.  errs is unbuffered: *)
(* the dispatcher's send completes when the caller receives.               *)
(***************************************************************************)
\* g := <-out
CallerRecvEvent ==
    /\ out # <<>>
    /\ recv' = Append(recv, Head(out))
    /\ out' = Tail(out)
    /\ UNCHANGED <<sideVars, cfgVars, mcVars, ctxVars, dispVars, up, outClosed, errsClosed, errRecv,
                   histVars, ret>>

\* e := <-errs, meeting errs <- e
CallerRecvErr ==
    /\ pc \in {"send_err", "send_last"}
    /\ errRecv' = Append(errRecv, pend)
    /\ pc' = IF pc = "send_err" THEN "close_out" ELSE "close_errs"
    /\ UNCHANGED <<sideVars, cfgVars, mcVars, ctxVars, start, k, lastErr, sentAny, upErrsNil, pend,
                   path, up, outerVars, recv, histVars, ret>>

\* the stream handler's context (context.WithCancel) is cancelled
Cancel ==
    /\ ctx = "live"
    /\ pc # "done"
    /\ ctx' = "canceled"
    /\ cancelPc' = pc
    /\ cancelAt' = Len(attempts)
    /\ UNCHANGED <<sideVars, cfgVars, mcVars, dispVars, up, outerVars, callerVars, histVars, ret>>

(***************************************************************************)
(* The streaming specification: one GenerateContentStream call on a        *)
(* MultiClient built by NewMultiClient.                                    *)
(***************************************************************************)
AllUnits == 0..(MaxUnits - 1)

NoStore == [present |-> FALSE, rr |-> -1, pid |-> [u \in AllUnits |-> ""]]
EmptyStore == [present |-> TRUE, rr |-> -1, pid |-> [u \in AllUnits |-> ""]]

\* a store a previous run left the project id of unit 0's credential in
UsedStore == [EmptyStore EXCEPT !.pid[0] = "ps"]

\* how the dispatch is set up: the tests pass a project and no store; the
\* server passes no project, with unit 0 preset by projectIds and no store, or
\* with every unit in discovery mode over a store that knows unit 0
Setups ==
    {[project |-> "proj", slot |-> [u \in AllUnits |-> ""], store |-> NoStore],
     [project |-> "", slot |-> [u \in AllUnits |-> IF u = 0 THEN "pp" ELSE ""],
      store |-> NoStore],
     [project |-> "", slot |-> [u \in AllUnits |-> ""], store |-> UsedStore]}

\* no isRetryable call is under way
NoCls == [err |-> NoErr, res |-> "none"]

ClsIdle == cls = NoCls

\* the goroutines that may call pickStart
Callers == 1..MaxCallers

\* no goroutine has called pickStart
NoPk == [c \in Callers |-> [pc |-> "idle", post |-> 0, start |-> -1, wrote |-> "none"]]

PkIdle == pk = NoPk

\* no goroutine has called getOrDiscoverProjectID
NoRs == [c \in Callers |-> [pc |-> "idle", pid |-> "", err |-> NoErr,
                            discovered |-> FALSE, after |-> {}]]

RsIdle == rs = NoRs

\* NewMultiClient has returned; its inputs are not kept
NoNm == [pc |-> "built", sources |-> <<>>, projectMap |-> <<>>, i |-> 0,
         entries |-> <<>>, err |-> NoErr]

NmIdle == nm = NoNm

\* no CaClient call is under way
NoHc == [op |-> "none", pc |-> "idle", transportRetries |-> 0, attempt |-> 0,
         sends |-> 0, reply |-> NoReply, err |-> NoErr]

HcIdle == hc = NoHc

\* no credential file is being saved or read
NoTk == [link |-> 0, files |-> <<>>, tmps |-> {}, pc |-> "idle",
         ver |-> 0, tmp |-> 0, saves |-> 0, err |-> "",
         rpc |-> "idle", rino |-> 0, got |-> <<>>, allowed |-> {}]

TkIdle == tk = NoTk

NoToken == [at |-> "", tt |-> "", exp |-> 0, rt |-> ""]

\* no persisting token source is in use
NoTs == [pc |-> "none", persist |-> FALSE, path |-> "", current |-> NoToken,
         file |-> NoToken, calls |-> 0, issued |-> 0, saveFailed |-> FALSE,
         conc |-> [c \in Callers |-> [pc |-> "idle", tok |-> 0]],
         last |-> [tok |-> NoToken, current |-> NoToken, file |-> NoToken,
                   err |-> FALSE, save |-> "none"]]

TsIdle == ts = NoTs

\* no request is being handled
NoGq == [pc |-> "none", data |-> <<>>, req |-> <<>>, payload |-> <<>>]

GqIdle == gq = NoGq

\* no server is running
NoLim == [cap |-> 0, sem |-> 0, st |-> <<>>, seen |-> <<>>]

LimIdle == lim = NoLim

\* no request is at the routed handlers
NoAu == [pc |-> "none", key |-> <<>>, req |-> <<>>, status |-> 0,
         dispatched |-> FALSE, listed |-> FALSE]

AuIdle == au = NoAu

\* the stream handler has written nothing and is at its select
NoHd == [pc |-> "select", frames |-> <<>>, errsNil |-> FALSE, wfail |-> FALSE,
         ctxAtReturn |-> ""]

HdIdle == hd = NoHd

\* no process is being followed across restarts
NoRst == [pc |-> "off", life |-> 1, picks |-> 0, starts |-> <<>>, base |-> 0,
          restored |-> FALSE, lastWrite |-> "none", prevBase |-> 0, prevPicks |-> 0,
          prevWrite |-> "none"]

RstIdle == rst = NoRst

\* DiscoverProjectID is not running
NoDp == [pc |-> "off", loads |-> 0, onboards |-> 0, first |-> "", tier |-> "",
         sent |-> {}, now |-> 0, pid |-> "", err |-> NoErr, cancelIn |-> "",
         status |-> 0,
         lr |-> [project |-> [kind |-> "absent", id |-> ""], tiers |-> <<>>],
         or |-> [done |-> FALSE, id |-> ""]]

DpIdle == dp = NoDp

\* parseSSEStream is not running
NoSs == [pc |-> "off", lines |-> <<>>, pos |-> 0, calls |-> <<>>, term |-> "eof",
         err |-> NoErr]

SsIdle == ss = NoSs

\* the test consumer has not received anything yet: it is in its range loop
NoCn == [pc |-> "range"]

CnIdle == cn = NoCn

\* the components outside the dispatch are at rest
SideIdle ==
    /\ ClsIdle
    /\ PkIdle
    /\ RsIdle
    /\ NmIdle
    /\ HcIdle
    /\ TkIdle
    /\ TsIdle
    /\ GqIdle
    /\ LimIdle
    /\ AuIdle
    /\ HdIdle
    /\ RstIdle
    /\ DpIdle
    /\ SsIdle
    /\ CnIdle

InitCommon ==
    /\ SideIdle
    /\ n \in 1..MaxUnits
    /\ retries \in (-1)..MaxRetries
    /\ rr \in 0..(n - 1)
    /\ \E setup \in Setups :
          /\ project = setup.project
          /\ slot = setup.slot
          /\ store = setup.store
    /\ ctx = "live"
    /\ cancelPc = ""
    /\ cancelAt = -1
    /\ pc = "init"
    /\ start = 0
    /\ k = 0
    /\ lastErr = NoErr
    /\ sentAny = FALSE
    /\ upErrsNil = FALSE
    /\ pend = NoErr
    /\ path = ""
    /\ up = IdleUp
    /\ out = <<>>
    /\ outClosed = FALSE
    /\ errsClosed = FALSE
    /\ recv = <<>>
    /\ errRecv = <<>>
    /\ attempts = <<>>
    /\ resolved = <<>>
    /\ calls = <<>>
    /\ ret = [resp |-> NoResp, err |-> NoErr]

Init == InitCommon /\ mode = "stream"

Next ==
    \/ SPickStart
    \/ SAttempt
    \/ SRecvEvent
    \/ SForward
    \/ SUpOutClosed
    \/ SPendingErr
    \/ SPendingNone
    \/ SPendingCtx
    \/ SRecvUpErr
    \/ SUpErrsClosed
    \/ SCtxDone
    \/ SCloseOut
    \/ SCloseErrs
    \/ SExhausted
    \/ UpDo
    \/ UpReadLine
    \/ UpReadEnd
    \/ UpCloseErrs
    \/ UpCloseOut
    \/ CallerRecvEvent
    \/ CallerRecvErr
    \/ Cancel

Spec == Init /\ [][Next]_vars

(***************************************************************************)
(* MultiClient.GenerateContent: the unary dispatch.  It runs in the        *)
(* caller's goroutine; the only concurrent step is the end of the caller's *)
(* context (the unary handler derives it with context.WithTimeout).        *)
(***************************************************************************)
\* what CaClient.GenerateContent returns for unit u on the given reply
CaGenerateContent(u, reply) ==
    IF ctx # "live" THEN [resp |-> NoResp, err |-> CtxErr]
    ELSE IF reply.do # "ok" THEN [resp |-> NoResp, err |-> ErrConnReset]
    ELSE IF reply.status >= 200 /\ reply.status < 300
    THEN IF reply.env = "nil"
         THEN [resp |-> NoResp, err |-> ErrEmptyEnvelope]
         ELSE [resp |-> [unit |-> u], err |-> NoErr]
    ELSE [resp |-> NoResp, err |-> ErrStatus(reply.status, reply.body)]

\* start := mc.pickStart(); total := mc.retries + 1
UPickStart ==
    /\ pc = "init"
    /\ \E writeOk \in BOOLEAN : pickStart(writeOk)
    /\ k' = 0
    /\ pc' = "loop"
    /\ UNCHANGED <<sideVars, cfgVars, slot, ctxVars, lastErr, sentAny, upErrsNil, pend, path, up,
                   outerVars, callerVars, histVars, ret>>

\* the head of one loop iteration: j := (start + k) % n and the project-id
\* resolution; a failure rotates
UResolve ==
    /\ pc = "loop"
    /\ k < Total
    /\ LET u == (start + k) % n IN
       \E r \in Resolutions(u) :
          /\ slot' = r.slot
          /\ store' = r.store
          /\ attempts' = Append(attempts, u)
          /\ resolved' = Append(resolved, r.err)
          /\ IF r.err.kind # "nil"
             THEN RotateOnResolutionFailure(r.err) /\ UNCHANGED pc
             ELSE pc' = "call" /\ UNCHANGED <<lastErr, k>>
    /\ UNCHANGED <<sideVars, cfgVars, rr, ctxVars, start, sentAny, upErrsNil, pend, path, up,
                   outerVars, callerVars, calls, ret>>

\* a mutant of LastOrPermanent: a pool of one unit is not called again
LastOrPermanentSingleUnit(err) ==
    k = Total - 1 \/ ~isRetryable(err) \/ n = 1

\* if k == total-1 || !isRetryable(err) { return nil, err }
LastOrPermanent(err) ==
    k = Total - 1 \/ ~isRetryable(err)

\* resp, err := e.ca.GenerateContent(ctx, model, prj, req) and what follows
UCall ==
    /\ pc = "call"
    /\ LET u == (start + k) % n IN
       \E reply \in UnaryReplies :
          LET res == CaGenerateContent(u, reply) IN
          /\ calls' = Append(calls, [k |-> k, unit |-> u, reply |-> reply,
                                     err |-> res.err])
          /\ IF res.err.kind = "nil"
             THEN ret' = res /\ pc' = "done" /\ UNCHANGED <<lastErr, k>>
             ELSE /\ lastErr' = res.err
                  /\ IF LastOrPermanent(res.err)
                     THEN ret' = res /\ pc' = "done" /\ UNCHANGED k
                     ELSE k' = k + 1 /\ pc' = "loop" /\ UNCHANGED ret
    /\ UNCHANGED <<sideVars, cfgVars, mcVars, ctxVars, start, sentAny, upErrsNil, pend, path, up,
                   outerVars, callerVars, attempts, resolved>>

\* after the loop: return nil, lastErr
UExhausted ==
    /\ pc = "loop"
    /\ k >= Total
    /\ ret' = [resp |-> NoResp, err |-> lastErr]
    /\ pc' = "done"
    /\ UNCHANGED <<sideVars, cfgVars, mcVars, ctxVars, start, k, lastErr, sentAny, upErrsNil, pend,
                   path, up, outerVars, callerVars, histVars>>

\* the unary handler's context is cancelled, or its timeout passes
UCancel ==
    /\ ctx = "live"
    /\ pc # "done"
    /\ ctx' \in {"canceled", "deadline"}
    /\ cancelPc' = pc
    /\ cancelAt' = Len(attempts)
    /\ UNCHANGED <<sideVars, cfgVars, mcVars, dispVars, up, outerVars, callerVars, histVars, ret>>

InitUnary == InitCommon /\ mode = "unary"

NextUnary ==
    \/ UPickStart
    \/ UResolve
    \/ UCall
    \/ UExhausted
    \/ UCancel

SpecUnary == InitUnary /\ [][NextUnary]_vars

(***************************************************************************)
(* Either dispatch on a MultiClient: the streaming one or the unary one.   *)
(***************************************************************************)
InitDispatch == InitCommon /\ mode \in {"stream", "unary"}

NextDispatch ==
    \/ mode = "stream" /\ Next
    \/ mode = "unary" /\ NextUnary

SpecDispatch == InitDispatch /\ [][NextDispatch]_vars

(***************************************************************************)
(* A dispatch at rest, for the specifications of the other components.     *)
(***************************************************************************)
McIdle ==
    /\ n = 1
    /\ retries = 0
    /\ project = "proj"
    /\ mode = "stream"
    /\ rr = 0
    /\ slot = [u \in AllUnits |-> ""]
    /\ store = NoStore

\* no dispatch has begun
RunIdle ==
    /\ ctx = "live"
    /\ cancelPc = ""
    /\ cancelAt = -1
    /\ pc = "init"
    /\ start = 0
    /\ k = 0
    /\ lastErr = NoErr
    /\ sentAny = FALSE
    /\ upErrsNil = FALSE
    /\ pend = NoErr
    /\ path = ""
    /\ up = IdleUp
    /\ out = <<>>
    /\ outClosed = FALSE
    /\ errsClosed = FALSE
    /\ recv = <<>>
    /\ errRecv = <<>>
    /\ attempts = <<>>
    /\ resolved = <<>>
    /\ calls = <<>>
    /\ ret = [resp |-> NoResp, err |-> NoErr]

DispatchIdle == McIdle /\ RunIdle

(***************************************************************************)
(* isRetryable on its own: an error is drawn and classified.               *)
(***************************************************************************)
\* upstream statuses the classification is explored on
StatusCodes == {400, 401, 403, 404, 408, 409, 422, 429, 451, 499,
                500, 501, 502, 503, 504, 529, 599}

\* the errors isRetryable is applied to
ClassifyErrors ==
    {ErrStatus(c, b) : c \in StatusCodes, b \in {"unauthorized", "boom", "gateway timeout"}}
    \cup {NoErr, ErrCanceled, ErrDeadline, ErrEOF, ErrUnexpectedEOF, ErrConnReset,
          ErrTimeout, ErrTempFailure, ErrDiscovery, ErrEmptyEnvelope}

\* r := isRetryable(err)
Classify ==
    /\ cls.res = "none"
    /\ cls' = [cls EXCEPT !.res = IF isRetryable(cls.err) THEN "yes" ELSE "no"]
    /\ UNCHANGED <<dispatchVars, clsOthers>>

InitClassify ==
    /\ DispatchIdle
    /\ PkIdle
    /\ RsIdle
    /\ NmIdle
    /\ HcIdle
    /\ TkIdle
    /\ TsIdle
    /\ GqIdle
    /\ LimIdle
    /\ AuIdle
    /\ HdIdle
    /\ RstIdle
    /\ DpIdle
    /\ SsIdle
    /\ CnIdle
    /\ cls \in {[err |-> e, res |-> "none"] : e \in ClassifyErrors}

NextClassify ==
    \/ Classify

SpecClassify == InitClassify /\ [][NextClassify]_vars

(***************************************************************************)
(* pickStart called by several goroutines at once on one MultiClient.      *)
(* atomic.AddUint64 is one step; the store write and the return follow.    *)
(***************************************************************************)
\* a mutant of PickAdd: the increment is lost
PickAddLost(c) ==
    /\ pk[c].pc = "idle"
    /\ rr' = rr
    /\ pk' = [pk EXCEPT ![c] = [pc |-> "persist", post |-> rr + 1, start |-> -1,
                                wrote |-> "none"]]
    /\ UNCHANGED <<cfgVars, slot, store, ctxVars, dispVars, up, outerVars, callerVars,
                   histVars, ret, pkOthers>>

\* atomic.AddUint64(&mc.rr, 1): the goroutine holds the value after its own
\* increment
PickAdd(c) ==
    /\ pk[c].pc = "idle"
    /\ rr' = rr + 1
    /\ pk' = [pk EXCEPT ![c] = [pc |-> "persist", post |-> rr + 1, start |-> -1,
                                wrote |-> "none"]]
    /\ UNCHANGED <<cfgVars, slot, store, ctxVars, dispVars, up, outerVars, callerVars,
                   histVars, ret, pkOthers>>

\* if mc.store != nil { _ = mc.store.SetRRCounter(..., v+1) }: best effort
PickPersist(c) ==
    /\ pk[c].pc = "persist"
    /\ \E writeOk \in BOOLEAN :
          /\ store' = IF store.present /\ writeOk
                      THEN [store EXCEPT !.rr = pk[c].post]
                      ELSE store
          /\ pk' = [pk EXCEPT ![c].pc = "return",
                              ![c].wrote = IF store.present /\ writeOk
                                           THEN "ok" ELSE "failed"]
    /\ UNCHANGED <<cfgVars, rr, slot, ctxVars, dispVars, up, outerVars, callerVars,
                   histVars, ret, pkOthers>>

\* return int(v % uint64(n)), with v the value before the increment
PickReturn(c) ==
    /\ pk[c].pc = "return"
    /\ pk' = [pk EXCEPT ![c].pc = "done", ![c].start = (pk[c].post - 1) % n]
    /\ UNCHANGED <<dispatchVars, pkOthers>>

InitPick ==
    /\ n \in 1..MaxUnits
    /\ retries = 0
    /\ project = "proj"
    /\ mode = "stream"
    /\ rr \in 0..MaxUnits
    /\ slot = [u \in AllUnits |-> ""]
    /\ store \in {NoStore, [EmptyStore EXCEPT !.rr = rr]}
    /\ RunIdle
    /\ ClsIdle
    /\ RsIdle
    /\ NmIdle
    /\ HcIdle
    /\ TkIdle
    /\ TsIdle
    /\ GqIdle
    /\ LimIdle
    /\ AuIdle
    /\ HdIdle
    /\ RstIdle
    /\ DpIdle
    /\ SsIdle
    /\ CnIdle
    /\ pk = NoPk

NextPick ==
    \/ \E c \in Callers : PickAdd(c)
    \/ \E c \in Callers : PickPersist(c)
    \/ \E c \in Callers : PickReturn(c)

SpecPick == InitPick /\ [][NextPick]_vars

(***************************************************************************)
(* getOrDiscoverProjectID called by several goroutines (requests) on the   *)
(* same discovery-mode unit, unit 0.  The function takes no lock: its      *)
(* loads, the discovery and its stores are separate steps.                 *)
(***************************************************************************)
\* the unit the requests are resolved on
ResolveUnit == 0

\* what one run of DiscoverProjectID may return here
ResolveOutcomes == DiscoverOutcomes \cup {[pid |-> "pe", err |-> NoErr]}

\* the project ids that requests which have returned had discovered
DiscoveredByDone ==
    {rs[d].pid : d \in {x \in Callers : rs[x].pc = "done" /\ rs[x].discovered}}

\* no other request is inside getOrDiscoverProjectID
NoneInFlight(c) ==
    \A d \in Callers \ {c} : rs[d].pc \in {"idle", "done"}

\* the request returns (pid, err)
ResolveReturn(c, pid, err) ==
    [rs[c] EXCEPT !.pc = "done", !.pid = pid, !.err = err]

\* if v := e.projectID.Load(); v != nil { ... return s, nil }
ResolveSlot(c) ==
    /\ rs[c].pc = "idle"
    /\ LET began == [rs EXCEPT ![c].after =
                        IF NoneInFlight(c) THEN DiscoveredByDone ELSE {}] IN
       rs' = IF slot[ResolveUnit] # ""
             THEN [began EXCEPT ![c] = [began[c] EXCEPT !.pc = "done",
                                                        !.pid = slot[ResolveUnit]]]
             ELSE [began EXCEPT ![c].pc = "lookup"]
    /\ UNCHANGED <<dispatchVars, rsOthers>>

\* a mutant of ResolveLookup: a state-store hit is returned without being
\* stored in the slot
ResolveLookupSkipsSlot(c) ==
    /\ rs[c].pc = "lookup"
    /\ \E ok \in LookupOutcomes(ResolveUnit) :
          IF store.present /\ ok /\ store.pid[ResolveUnit] # ""
          THEN rs' = [rs EXCEPT ![c] = ResolveReturn(c, store.pid[ResolveUnit], NoErr)]
          ELSE rs' = [rs EXCEPT ![c].pc = "discover"]
    /\ UNCHANGED slot
    /\ UNCHANGED <<cfgVars, rr, store, ctxVars, dispVars, up, outerVars, callerVars,
                   histVars, ret, rsOthers>>

\* if mc.store != nil { if pid, ok, err := mc.store.GetProjectID(...);
\* err == nil && ok { e.projectID.Store(pid); return pid, nil } }
ResolveLookup(c) ==
    /\ rs[c].pc = "lookup"
    /\ \E ok \in LookupOutcomes(ResolveUnit) :
          IF store.present /\ ok /\ store.pid[ResolveUnit] # ""
          THEN /\ slot' = [slot EXCEPT ![ResolveUnit] = store.pid[ResolveUnit]]
               /\ rs' = [rs EXCEPT ![c] = ResolveReturn(c, store.pid[ResolveUnit], NoErr)]
          ELSE /\ rs' = [rs EXCEPT ![c].pc = "discover"]
               /\ UNCHANGED slot
    /\ UNCHANGED <<cfgVars, rr, store, ctxVars, dispVars, up, outerVars, callerVars,
                   histVars, ret, rsOthers>>


\* a mutant of ResolveDiscover: the test for an empty discovered id is left
\* out
ResolveDiscoverKeepsEmpty(c) ==
    /\ rs[c].pc = "discover"
    /\ \E d \in ResolveOutcomes :
          rs' = IF d.err.kind # "nil"
                THEN [rs EXCEPT ![c] = ResolveReturn(c, "", d.err)]
                ELSE [rs EXCEPT ![c] = [rs[c] EXCEPT !.pc = "cache", !.pid = d.pid,
                                                     !.discovered = TRUE]]
    /\ UNCHANGED <<dispatchVars, rsOthers>>

\* pid, err := e.ca.DiscoverProjectID(ctx), and the two error returns
ResolveDiscover(c) ==
    /\ rs[c].pc = "discover"
    /\ \E d \in ResolveOutcomes :
          rs' = IF d.err.kind # "nil"
                THEN [rs EXCEPT ![c] = ResolveReturn(c, "", d.err)]
                ELSE IF d.pid = ""
                THEN [rs EXCEPT ![c] = ResolveReturn(c, "", ErrDiscovery)]
                ELSE [rs EXCEPT ![c] = [rs[c] EXCEPT !.pc = "cache", !.pid = d.pid,
                                                     !.discovered = TRUE]]
    /\ UNCHANGED <<dispatchVars, rsOthers>>

\* a mutant of ResolveCache: the discovered id is not stored in the slot
ResolveCacheSkips(c) ==
    /\ rs[c].pc = "cache"
    /\ slot' = slot
    /\ rs' = [rs EXCEPT ![c].pc = IF store.present THEN "upsert" ELSE "done"]
    /\ UNCHANGED <<cfgVars, rr, store, ctxVars, dispVars, up, outerVars, callerVars,
                   histVars, ret, rsOthers>>

\* e.projectID.Store(pid)
ResolveCache(c) ==
    /\ rs[c].pc = "cache"
    /\ slot' = [slot EXCEPT ![ResolveUnit] = rs[c].pid]
    /\ rs' = [rs EXCEPT ![c].pc = IF store.present THEN "upsert" ELSE "done"]
    /\ UNCHANGED <<cfgVars, rr, store, ctxVars, dispVars, up, outerVars, callerVars,
                   histVars, ret, rsOthers>>

\* _ = mc.store.UpsertProjectID(...): best effort; return pid, nil
ResolveUpsert(c) ==
    /\ rs[c].pc = "upsert"
    /\ \E writeOk \in BOOLEAN :
          store' = IF writeOk THEN [store EXCEPT !.pid[ResolveUnit] = rs[c].pid]
                   ELSE store
    /\ rs' = [rs EXCEPT ![c].pc = "done"]
    /\ UNCHANGED <<cfgVars, rr, slot, ctxVars, dispVars, up, outerVars, callerVars,
                   histVars, ret, rsOthers>>

InitResolve ==
    /\ n \in 1..MaxUnits
    /\ retries = 0
    /\ project = ""
    /\ mode \in {"stream", "unary"}
    /\ rr = 0
    /\ slot = [u \in AllUnits |-> ""]
    /\ store \in {NoStore, EmptyStore, UsedStore}
    /\ RunIdle
    /\ ClsIdle
    /\ PkIdle
    /\ NmIdle
    /\ HcIdle
    /\ TkIdle
    /\ TsIdle
    /\ GqIdle
    /\ LimIdle
    /\ AuIdle
    /\ HdIdle
    /\ RstIdle
    /\ DpIdle
    /\ SsIdle
    /\ CnIdle
    /\ rs = NoRs

NextResolve ==
    \/ \E c \in Callers : ResolveSlot(c)
    \/ \E c \in Callers : ResolveLookup(c)
    \/ \E c \in Callers : ResolveDiscover(c)
    \/ \E c \in Callers : ResolveCache(c)
    \/ \E c \in Callers : ResolveUpsert(c)

SpecResolve == InitResolve /\ [][NextResolve]_vars

(***************************************************************************)
(* NewMultiClient: the pool of units built from the credential sources     *)
(* and the projectIds map.  A unit is [credPath, preset, pid]: preset says     *)
(* whether the constructor stored a project id in the unit's slot.         *)
(***************************************************************************)
MaxSources == 2
MaxIds == 2

\* credential paths; the configuration is rejected if a projectIds key is
\* not one of them
SourcePaths == {"a.json", "b.json"}

\* the strings a projectIds list may hold
IdStrings == {"_auto", "p1", ""}

SeqsUpTo(S, m) == UNION {[1..l -> S] : l \in 0..m}

ProjectMaps == UNION {[D -> SeqsUpTo(IdStrings, MaxIds)] : D \in SUBSET SourcePaths}

DiscoveryUnit(credPath) == [path |-> credPath, preset |-> FALSE, pid |-> ""]
PresetUnit(credPath, pid) == [path |-> credPath, preset |-> TRUE, pid |-> pid]

\* for _, pid := range units { if pid == "_auto" { includeAuto = true; continue } ... }
RECURSIVE PresetUnits(_, _)
PresetUnits(credPath, units) ==
    IF units = <<>> THEN <<>>
    ELSE IF Head(units) = "_auto" THEN PresetUnits(credPath, Tail(units))
    ELSE <<PresetUnit(credPath, Head(units))>> \o PresetUnits(credPath, Tail(units))

\* a mutant of UnitsFor: an empty projectIds list gives the credential no unit
UnitsForEmptyListNone(credPath, projectMap) ==
    IF credPath \in DOMAIN projectMap
    THEN LET units == projectMap[credPath] IN
         IF Len(units) = 0 THEN <<>>
         ELSE PresetUnits(credPath, units)
              \o (IF \E j \in 1..Len(units) : units[j] = "_auto"
                  THEN <<DiscoveryUnit(credPath)>> ELSE <<>>)
    ELSE <<DiscoveryUnit(credPath)>>

\* the units one iteration of the loop over sources appends
UnitsFor(credPath, projectMap) ==
    IF credPath \in DOMAIN projectMap
    THEN LET units == projectMap[credPath] IN
         IF Len(units) = 0 THEN <<DiscoveryUnit(credPath)>>
         ELSE PresetUnits(credPath, units)
              \o (IF \E j \in 1..Len(units) : units[j] = "_auto"
                  THEN <<DiscoveryUnit(credPath)>> ELSE <<>>)
    ELSE <<DiscoveryUnit(credPath)>>

ErrNoCredentials == [kind |-> "nocreds", code |-> 0, body |-> <<>>]

\* for _, src := range sources { ... }
BuildSource ==
    /\ nm.pc = "sources"
    /\ nm.i < Len(nm.sources)
    /\ nm' = [nm EXCEPT !.i = nm.i + 1,
                        !.entries = nm.entries
                                    \o UnitsFor(nm.sources[nm.i + 1], nm.projectMap)]
    /\ UNCHANGED <<dispatchVars, nmOthers>>

\* if len(mc.entries) == 0 { return nil, ... }
BuildFails ==
    /\ nm.pc = "sources"
    /\ nm.i = Len(nm.sources)
    /\ Len(nm.entries) = 0
    /\ nm' = [nm EXCEPT !.pc = "done", !.err = ErrNoCredentials]
    /\ UNCHANGED <<dispatchVars, nmOthers>>

\* the counter is loaded from the store if it is there; return mc, nil
BuildReturns ==
    /\ nm.pc = "sources"
    /\ nm.i = Len(nm.sources)
    /\ Len(nm.entries) # 0
    /\ \E readOk \in BOOLEAN :
          rr' = IF store.present /\ readOk THEN store.rr ELSE rr
    /\ nm' = [nm EXCEPT !.pc = "done"]
    /\ UNCHANGED <<cfgVars, slot, store, ctxVars, dispVars, up, outerVars, callerVars,
                   histVars, ret, nmOthers>>

InitBuild ==
    /\ n = 1
    /\ retries = 0
    /\ project = ""
    /\ mode = "unary"
    /\ rr = 0
    /\ slot = [u \in AllUnits |-> ""]
    /\ store \in {NoStore, [EmptyStore EXCEPT !.rr = 1]}
    /\ RunIdle
    /\ ClsIdle
    /\ PkIdle
    /\ RsIdle
    /\ HcIdle
    /\ TkIdle
    /\ TsIdle
    /\ GqIdle
    /\ LimIdle
    /\ AuIdle
    /\ HdIdle
    /\ RstIdle
    /\ DpIdle
    /\ SsIdle
    /\ CnIdle
    /\ \E sources \in SeqsUpTo(SourcePaths, MaxSources), projectMap \in ProjectMaps :
          nm = [pc |-> "sources", sources |-> sources, projectMap |-> projectMap,
                i |-> 0, entries |-> <<>>, err |-> NoErr]

NextBuild ==
    \/ BuildSource
    \/ BuildFails
    \/ BuildReturns

SpecBuild == InitBuild /\ [][NextBuild]_vars

(***************************************************************************)
(* CaClient: one call of GenerateContent, or of doJSON (the helper of the  *)
(* discovery calls), on a client built with a transport retry budget.      *)
(* hc.sends counts the calls of c.httpClient.Do.                           *)
(***************************************************************************)
MaxTransportRetries == 2

\* the statuses doJSON reports to WithRetries as an error
JsonRetried(status) == status = 401 \/ status = 429 \/ (status >= 500 /\ status <= 599)

\* a mutant of HcGenerate: the call goes through the transport retry budget
HcGenerateWithRetries ==
    /\ hc.op = "generate"
    /\ hc.pc = "call"
    /\ \E reply \in UnaryReplies :
          LET res == CaGenerateContent(0, reply) IN
          hc' = [hc EXCEPT !.sends = hc.sends + 1, !.reply = reply, !.err = res.err,
                           !.attempt = hc.attempt + 1,
                           !.pc = IF res.err # NoErr /\ hc.attempt < hc.transportRetries
                                  THEN "call" ELSE "done"]
    /\ UNCHANGED <<dispatchVars, hcOthers>>

\* CaClient.GenerateContent: resp, err := c.httpClient.Do(httpReq) and the
\* return on the answer
HcGenerate ==
    /\ hc.op = "generate"
    /\ hc.pc = "call"
    /\ \E reply \in UnaryReplies :
          LET res == CaGenerateContent(0, reply) IN
          hc' = [hc EXCEPT !.sends = hc.sends + 1, !.reply = reply, !.err = res.err,
                           !.pc = "done"]
    /\ UNCHANGED <<dispatchVars, hcOthers>>

\* WithRetries: if ctx.Err() != nil { return ctx.Err() }
HcJsonCtxErr ==
    /\ hc.op = "json"
    /\ hc.pc = "call"
    /\ ctx # "live"
    /\ hc' = [hc EXCEPT !.err = CtxErr, !.pc = "done"]
    /\ UNCHANGED <<dispatchVars, hcOthers>>

\* a mutant of HcJsonAttempt: the loop breaks one attempt later
HcJsonAttemptOneMore ==
    /\ hc.op = "json"
    /\ hc.pc = "call"
    /\ ctx = "live"
    /\ \E reply \in UnaryReplies :
          LET err == IF reply.do # "ok" THEN ErrConnReset
                     ELSE IF reply.status >= 200 /\ reply.status < 300 THEN NoErr
                     ELSE IF JsonRetried(reply.status)
                     THEN ErrStatus(reply.status, reply.body)
                     ELSE NoErr
          IN hc' = [hc EXCEPT !.sends = hc.sends + 1, !.reply = reply, !.err = err,
                              !.pc = IF err = NoErr \/ hc.attempt = hc.transportRetries + 1
                                     THEN "done" ELSE "timer"]
    /\ UNCHANGED <<dispatchVars, hcOthers>>

\* WithRetries: err = fn(attempt), fn being doJSON's closure with its one
\* c.httpClient.Do; return nil, break at attempt == max, or go to the timer
HcJsonAttempt ==
    /\ hc.op = "json"
    /\ hc.pc = "call"
    /\ ctx = "live"
    /\ \E reply \in UnaryReplies :
          LET err == IF reply.do # "ok" THEN ErrConnReset
                     ELSE IF reply.status >= 200 /\ reply.status < 300 THEN NoErr
                     ELSE IF JsonRetried(reply.status)
                     THEN ErrStatus(reply.status, reply.body)
                     ELSE NoErr
          IN hc' = [hc EXCEPT !.sends = hc.sends + 1, !.reply = reply, !.err = err,
                              !.pc = IF err = NoErr \/ hc.attempt = hc.transportRetries
                                     THEN "done" ELSE "timer"]
    /\ UNCHANGED <<dispatchVars, hcOthers>>

\* WithRetries: select { case <-ctx.Done(): return ctx.Err(); case <-t.C: }
HcJsonTimer ==
    /\ hc.op = "json"
    /\ hc.pc = "timer"
    /\ \/ hc' = [hc EXCEPT !.attempt = hc.attempt + 1, !.pc = "call"]
       \/ ctx # "live" /\ hc' = [hc EXCEPT !.err = CtxErr, !.pc = "done"]
    /\ UNCHANGED <<dispatchVars, hcOthers>>

\* the caller's context ends while the call is under way
HcCancel ==
    /\ hc.pc \in {"call", "timer"}
    /\ ctx = "live"
    /\ ctx' \in {"canceled", "deadline"}
    /\ UNCHANGED <<cfgVars, mcVars, cancelPc, cancelAt, dispVars, up, outerVars, callerVars,
                   histVars, ret, sideVars>>

InitClient ==
    /\ DispatchIdle
    /\ ClsIdle
    /\ PkIdle
    /\ RsIdle
    /\ NmIdle
    /\ TkIdle
    /\ TsIdle
    /\ GqIdle
    /\ LimIdle
    /\ AuIdle
    /\ HdIdle
    /\ RstIdle
    /\ DpIdle
    /\ SsIdle
    /\ CnIdle
    /\ \E op \in {"generate", "json"}, tr \in 0..MaxTransportRetries :
          hc = [NoHc EXCEPT !.op = op, !.pc = "call", !.transportRetries = tr]

NextClient ==
    \/ HcGenerate
    \/ HcJsonCtxErr
    \/ HcJsonAttempt
    \/ HcJsonTimer
    \/ HcCancel

SpecClient == InitClient /\ [][NextClient]_vars

(***************************************************************************)
(* SaveRawTokenAtomic and a concurrent reader of the credential path.      *)
(* The directory holds inodes; tk.link is the inode the credential path    *)
(* names, tk.tmps the inodes that have a temporary name.  The JSON of      *)
(* token version v is written, and read, in MaxChunks pieces.  Inode 0     *)
(* holds the credential the process was started with; the s-th save        *)
(* creates inode s.                                                        *)
(***************************************************************************)
MaxSaves == 2
MaxChunks == 2

Inodes == 0..MaxSaves

\* json.MarshalIndent(rt, "", "  ") of token version v, in pieces
Json(v) == [j \in 1..MaxChunks |-> [ver |-> v, part |-> j]]

\* a mutant of SaveCreateTemp: the credential file itself is opened and
\* truncated
SaveCreateInPlace ==
    /\ tk.pc = "idle"
    /\ tk.saves < MaxSaves
    /\ \E ok \in BOOLEAN :
          tk' = IF ok
                THEN [tk EXCEPT !.pc = "write", !.ver = tk.saves + 1, !.tmp = tk.link,
                                !.files[tk.link] = <<>>]
                ELSE [tk EXCEPT !.saves = tk.saves + 1, !.err = "create temp"]
    /\ UNCHANGED <<dispatchVars, tkOthers>>

\* os.MkdirAll, json.MarshalIndent, os.CreateTemp(dir, ".token-*.json");
\* defer os.Remove(tmpPath)
SaveCreateTemp ==
    /\ tk.pc = "idle"
    /\ tk.saves < MaxSaves
    /\ \E ok \in BOOLEAN :
          tk' = IF ok
                THEN [tk EXCEPT !.pc = "write", !.ver = tk.saves + 1,
                                !.tmp = tk.saves + 1,
                                !.tmps = tk.tmps \cup {tk.saves + 1},
                                !.files[tk.saves + 1] = <<>>]
                ELSE [tk EXCEPT !.saves = tk.saves + 1, !.err = "create temp"]
    /\ UNCHANGED <<dispatchVars, tkOthers>>

\* tmp.Write(b): the bytes reach the file piece by piece; an error leaves
\* what was written, closes the file and returns
SaveWrite ==
    /\ tk.pc = "write"
    /\ \E ok \in BOOLEAN :
          tk' = IF ok
                THEN LET data == Append(tk.files[tk.tmp],
                                        Json(tk.ver)[Len(tk.files[tk.tmp]) + 1]) IN
                     [tk EXCEPT !.files[tk.tmp] = data,
                                !.pc = IF Len(data) = MaxChunks THEN "close" ELSE "write"]
                ELSE [tk EXCEPT !.pc = "remove", !.err = "write temp"]
    /\ UNCHANGED <<dispatchVars, tkOthers>>

\* tmp.Chmod(0o600) and tmp.Close()
SaveChmodClose ==
    /\ tk.pc = "close"
    /\ \E ok \in BOOLEAN :
          tk' = IF ok THEN [tk EXCEPT !.pc = "rename"]
                ELSE [tk EXCEPT !.pc = "remove", !.err = "close temp"]
    /\ UNCHANGED <<dispatchVars, tkOthers>>

\* os.Rename(tmpPath, path): the path names the new inode, or nothing changes
SaveRename ==
    /\ tk.pc = "rename"
    /\ \E ok \in BOOLEAN :
          tk' = IF ok
                THEN [tk EXCEPT !.pc = "remove", !.link = tk.tmp,
                                !.tmps = tk.tmps \ {tk.tmp}, !.err = ""]
                ELSE [tk EXCEPT !.pc = "remove", !.err = "rename"]
    /\ UNCHANGED <<dispatchVars, tkOthers>>

\* the deferred os.Remove(tmpPath), and the return
SaveRemove ==
    /\ tk.pc = "remove"
    /\ tk' = [tk EXCEPT !.pc = "idle", !.tmps = tk.tmps \ {tk.tmp},
                        !.saves = tk.saves + 1]
    /\ UNCHANGED <<dispatchVars, tkOthers>>

\* the process is stopped inside SaveRawTokenAtomic: nothing more is done,
\* the deferred Remove included
SaveInterrupted ==
    /\ tk.pc \in {"write", "close", "rename", "remove"}
    /\ tk' = [tk EXCEPT !.pc = "stopped"]
    /\ UNCHANGED <<dispatchVars, tkOthers>>

\* os.ReadFile(path) by another goroutine or process: open
ReadOpen ==
    /\ tk.rpc = "idle"
    /\ tk' = [tk EXCEPT !.rpc = "read", !.rino = tk.link, !.got = <<>>,
                        !.allowed = {tk.files[tk.link][1].ver}
                                    \cup (IF tk.pc \in {"idle", "stopped"} THEN {}
                                          ELSE {tk.ver})]
    /\ UNCHANGED <<dispatchVars, tkOthers>>

\* os.ReadFile: the next read of the open file; at the end of file it returns
ReadNext ==
    /\ tk.rpc = "read"
    /\ tk' = IF Len(tk.got) < Len(tk.files[tk.rino])
             THEN [tk EXCEPT !.got = Append(tk.got, tk.files[tk.rino][Len(tk.got) + 1])]
             ELSE [tk EXCEPT !.rpc = "done"]
    /\ UNCHANGED <<dispatchVars, tkOthers>>

InitToken ==
    /\ DispatchIdle
    /\ ClsIdle
    /\ PkIdle
    /\ RsIdle
    /\ NmIdle
    /\ HcIdle
    /\ TsIdle
    /\ GqIdle
    /\ LimIdle
    /\ AuIdle
    /\ HdIdle
    /\ RstIdle
    /\ DpIdle
    /\ SsIdle
    /\ CnIdle
    /\ tk = [NoTk EXCEPT !.files = [i \in Inodes |-> IF i = 0 THEN Json(0) ELSE <<>>]]

NextToken ==
    \/ SaveCreateTemp
    \/ SaveWrite
    \/ SaveChmodClose
    \/ SaveRename
    \/ SaveRemove
    \/ SaveInterrupted
    \/ ReadOpen
    \/ ReadNext

SpecToken == InitToken /\ [][NextToken]_vars

(***************************************************************************)
(* persistingTokenSource.Token.  A credential is [at, tt, exp, rt]: access *)
(* token, token type, expiry in milliseconds, refresh token; an oauth2     *)
(* token has the same fields, with exp = 0 for the zero time.  ts.file is  *)
(* the credential in the file at the path.                                 *)
(***************************************************************************)
MaxTokenCalls == 2

\* the tokens the base token source may return
OAuthTokens ==
    [at : {"", "a1", "a2"}, tt : {"", "Bearer"}, exp : {0, 1, 2}, rt : {"", "r2"}]

\* a mutant of fromOAuth2Token: the returned fields are taken as they are
fromOAuth2TokenVerbatim(tok, prev) ==
    [at |-> tok.at, tt |-> tok.tt, exp |-> tok.exp, rt |-> tok.rt]

\* fromOAuth2Token: the previous credential with the token's non-empty
\* fields put in
fromOAuth2Token(tok, prev) ==
    [at |-> IF tok.at # "" THEN tok.at ELSE prev.at,
     tt |-> IF tok.tt # "" THEN tok.tt ELSE prev.tt,
     exp |-> IF tok.exp # 0 THEN tok.exp ELSE prev.exp,
     rt |-> IF tok.rt # "" THEN tok.rt ELSE prev.rt]

\* tok, err := p.base.Token(); if err != nil { return nil, err }
TokenBaseFails ==
    /\ ts.pc = "ready"
    /\ ts.calls < MaxTokenCalls
    /\ ts' = [ts EXCEPT !.calls = ts.calls + 1,
                        !.last = [tok |-> NoToken, current |-> ts.current, file |-> ts.file,
                                  err |-> TRUE, save |-> "none"]]
    /\ UNCHANGED <<dispatchVars, tsOthers>>

\* Token with a token from the base source: the comparison under p.mu, the
\* update of p.current and the save, whose error is dropped
TokenReturns ==
    /\ ts.pc = "ready"
    /\ ts.calls < MaxTokenCalls
    /\ \E tok \in OAuthTokens, saveOk \in BOOLEAN :
          LET updated == fromOAuth2Token(tok, ts.current)
              differs == updated.at # ts.current.at \/ updated.exp # ts.current.exp
              saves == differs /\ ts.persist /\ ts.path # ""
          IN ts' = [ts EXCEPT !.calls = ts.calls + 1,
                              !.current = IF differs THEN updated ELSE ts.current,
                              !.file = IF saves /\ saveOk THEN updated ELSE ts.file,
                              !.last = [tok |-> tok, current |-> ts.current,
                                        file |-> ts.file, err |-> FALSE,
                                        save |-> IF ~saves THEN "none"
                                                 ELSE IF saveOk THEN "ok" ELSE "failed"]]
    /\ UNCHANGED <<dispatchVars, tsOthers>>

\* NewPersistingTokenSource(base, initial, path, persist), initial being the
\* credential loaded from the file
InitTokenSource ==
    /\ DispatchIdle
    /\ ClsIdle
    /\ PkIdle
    /\ RsIdle
    /\ NmIdle
    /\ HcIdle
    /\ TkIdle
    /\ GqIdle
    /\ LimIdle
    /\ AuIdle
    /\ HdIdle
    /\ RstIdle
    /\ DpIdle
    /\ SsIdle
    /\ CnIdle
    /\ \E persist \in BOOLEAN, p \in {"", "creds.json"}, e \in {1, 2} :
          LET initial == [at |-> "a1", tt |-> "Bearer", exp |-> e, rt |-> "r"] IN
          ts = [NoTs EXCEPT !.pc = "ready", !.persist = persist, !.path = p,
                            !.current = initial, !.file = initial]

NextTokenSource ==
    \/ TokenBaseFails
    \/ TokenReturns

SpecTokenSource == InitTokenSource /\ [][NextTokenSource]_vars

(***************************************************************************)
(* Token called by several goroutines on one persistingTokenSource.        *)
(* p.base.Token() runs before p.mu is taken; the comparison, the update of *)
(* p.current and the save run under p.mu.  The base source hands out its   *)
(* cached token or a refreshed one; ts.issued counts the tokens it has     *)
(* issued and ts.conc[c].tok is the number of the token caller c holds.    *)
(***************************************************************************)
MaxIssued == 3

AccessNames == <<"a2", "a3", "a4", "a5", "a6">>

\* the num-th token the base source issues
IssuedToken(num) ==
    [at |-> AccessNames[num], tt |-> "Bearer", exp |-> 2 + num, rt |-> ""]

\* tok, err := p.base.Token(), err == nil
TsFetch(c) ==
    /\ ts.pc = "ready"
    /\ ts.conc[c].pc = "idle"
    /\ \E fresh \in BOOLEAN :
          LET num == IF fresh \/ ts.issued = 0 THEN ts.issued + 1 ELSE ts.issued IN
          /\ num <= MaxIssued
          /\ ts' = [ts EXCEPT !.issued = num,
                              !.conc[c] = [pc |-> "fetched", tok |-> num]]
    /\ UNCHANGED <<dispatchVars, tsOthers>>

\* tok, err := p.base.Token(); if err != nil { return nil, err }
TsFetchFails(c) ==
    /\ ts.pc = "ready"
    /\ ts.conc[c].pc = "idle"
    /\ ts' = [ts EXCEPT !.conc[c] = [pc |-> "done", tok |-> 0]]
    /\ UNCHANGED <<dispatchVars, tsOthers>>

\* p.mu.Lock() ... return tok, nil: the part of Token under the mutex
TsApply(c) ==
    /\ ts.pc = "ready"
    /\ ts.conc[c].pc = "fetched"
    /\ \E saveOk \in BOOLEAN :
          LET tok == IssuedToken(ts.conc[c].tok)
              updated == fromOAuth2Token(tok, ts.current)
              differs == updated.at # ts.current.at \/ updated.exp # ts.current.exp
              saves == differs /\ ts.persist /\ ts.path # ""
          IN ts' = [ts EXCEPT !.conc[c].pc = "done",
                              !.current = IF differs THEN updated ELSE ts.current,
                              !.file = IF saves /\ saveOk THEN updated ELSE ts.file,
                              !.saveFailed = ts.saveFailed \/ (saves /\ ~saveOk)]
    /\ UNCHANGED <<dispatchVars, tsOthers>>

NextTokenConc ==
    \/ \E c \in Callers : TsFetch(c)
    \/ \E c \in Callers : TsFetchFails(c)
    \/ \E c \in Callers : TsApply(c)

SpecTokenConc == InitTokenSource /\ [][NextTokenConc]_vars

(***************************************************************************)
(* The Gemini request on its way upstream.  A JSON object is a function    *)
(* from its keys to values.  The handler decodes the body into a           *)
(* GeminiRequest (known fields and UnknownFields); CaClient puts the       *)
(* GeminiRequest, by value, in a CodeAssistRequest and marshals that.      *)
(***************************************************************************)
KnownFields == {"contents", "generationConfig"}
RequestKeys == KnownFields \cup {"safetySettings", "customField"}
JsonValues == {"v1", "v2"}

\* the request bodies: JSON objects with contents
RequestBodies ==
    UNION {[D -> JsonValues] : D \in {X \in SUBSET RequestKeys : "contents" \in X}}

Restrict(f, D) == [x \in DOMAIN f \cap D |-> f[x]]

\* GeminiRequest.UnmarshalJSON
UnmarshalJSON(data) ==
    [known |-> Restrict(data, KnownFields),
     UnknownFields |-> Restrict(data, RequestKeys \ KnownFields)]

\* GeminiRequest.MarshalJSON, declared on *GeminiRequest
MarshalJSON(gr) ==
    [x \in DOMAIN gr.known \cup DOMAIN gr.UnknownFields |->
        IF x \in DOMAIN gr.UnknownFields THEN gr.UnknownFields[x] ELSE gr.known[x]]

\* encoding/json on the struct's fields: UnknownFields is tagged json:"-"
StructFields(gr) == gr.known

\* json.Marshal of a GeminiRequest: the method of the pointer type is used
\* only for a value whose address can be taken
Marshal(gr, addressable) ==
    IF addressable THEN MarshalJSON(gr) ELSE StructFields(gr)

\* the handler decodes the request body
GqDecode ==
    /\ gq.pc = "body"
    /\ gq' = [gq EXCEPT !.pc = "decoded", !.req = UnmarshalJSON(gq.data)]
    /\ UNCHANGED <<dispatchVars, gqOthers>>

\* json.Marshal(&req), as a caller holding the request may do
GqMarshalPointer ==
    /\ gq.pc = "decoded"
    /\ gq' = [gq EXCEPT !.pc = "marshaled", !.payload = Marshal(gq.req, TRUE)]
    /\ UNCHANGED <<dispatchVars, gqOthers>>

\* CaClient.GenerateContent: body := CodeAssistRequest{Model, Project,
\* Request: req}; pb, err := json.Marshal(body): body is passed by value,
\* so its Request field is not addressable
GqSend ==
    /\ gq.pc = "decoded"
    /\ gq' = [gq EXCEPT !.pc = "sent", !.payload = Marshal(gq.req, FALSE)]
    /\ UNCHANGED <<dispatchVars, gqOthers>>

InitRequest ==
    /\ DispatchIdle
    /\ ClsIdle
    /\ PkIdle
    /\ RsIdle
    /\ NmIdle
    /\ HcIdle
    /\ TkIdle
    /\ TsIdle
    /\ LimIdle
    /\ AuIdle
    /\ HdIdle
    /\ RstIdle
    /\ DpIdle
    /\ SsIdle
    /\ CnIdle
    /\ \E data \in RequestBodies : gq = [NoGq EXCEPT !.pc = "body", !.data = data]

NextRequest ==
    \/ GqDecode
    \/ GqMarshalPointer
    \/ GqSend

SpecRequest == InitRequest /\ [][NextRequest]_vars

(***************************************************************************)
(* Server.withConcurrencyLimit: s.sem is a buffered channel of capacity    *)
(* maxConcurrentRequests; lim.sem is the number of elements in it.  Each   *)
(* caller is one HTTP request; lim.st is where it is, lim.seen the number  *)
(* of requests inside the handlers when it arrived.                        *)
(***************************************************************************)
MaxSlots == 2

\* a mutant of LimArrive: one request too many is admitted
LimArriveOffByOne(c) ==
    /\ lim.st[c] = "new"
    /\ lim' = IF lim.sem <= lim.cap
              THEN [lim EXCEPT !.sem = lim.sem + 1, !.st[c] = "inside",
                               !.seen[c] = lim.sem]
              ELSE [lim EXCEPT !.st[c] = "429", !.seen[c] = lim.sem]
    /\ UNCHANGED <<dispatchVars, limOthers>>

\* select { case s.sem <- struct{}{}: ... next.ServeHTTP(w, r)
\*          default: http.Error(w, ..., http.StatusTooManyRequests) }
LimArrive(c) ==
    /\ lim.st[c] = "new"
    /\ lim' = IF lim.sem < lim.cap
              THEN [lim EXCEPT !.sem = lim.sem + 1, !.st[c] = "inside",
                               !.seen[c] = lim.sem]
              ELSE [lim EXCEPT !.st[c] = "429", !.seen[c] = lim.sem]
    /\ UNCHANGED <<dispatchVars, limOthers>>

\* a mutant of LimLeave: <-s.sem follows next.ServeHTTP without defer, so a
\* panic passes it by
LimLeaveNoDefer(c) ==
    /\ lim.st[c] = "inside"
    /\ \E how \in {"served", "panicked"} :
          lim' = [lim EXCEPT !.sem = IF how = "served" THEN lim.sem - 1 ELSE lim.sem,
                             !.st[c] = how]
    /\ UNCHANGED <<dispatchVars, limOthers>>

\* next.ServeHTTP returns, or panics (withRecover is outside the limiter):
\* the deferred <-s.sem runs
LimLeave(c) ==
    /\ lim.st[c] = "inside"
    /\ \E how \in {"served", "panicked"} :
          lim' = [lim EXCEPT !.sem = lim.sem - 1, !.st[c] = how]
    /\ UNCHANGED <<dispatchVars, limOthers>>

\* New: sem: make(chan struct{}, cfg.MaxConcurrentRequests)
InitLimit ==
    /\ DispatchIdle
    /\ ClsIdle
    /\ PkIdle
    /\ RsIdle
    /\ NmIdle
    /\ HcIdle
    /\ TkIdle
    /\ TsIdle
    /\ GqIdle
    /\ AuIdle
    /\ HdIdle
    /\ RstIdle
    /\ DpIdle
    /\ SsIdle
    /\ CnIdle
    /\ \E cap \in 1..MaxSlots :
          lim = [cap |-> cap, sem |-> 0, st |-> [c \in Callers |-> "new"],
                 seen |-> [c \in Callers |-> 0]]

NextLimit ==
    \/ \E c \in Callers : LimArrive(c)
    \/ \E c \in Callers : LimLeave(c)

SpecLimit == InitLimit /\ [][NextLimit]_vars

(***************************************************************************)
(* Server.authorize and the two routed handlers that call it.  Header      *)
(* values and the key are sequences of characters.  au.dispatched says     *)
(* that the request was handed to a generation handler, au.listed that     *)
(* the model list was written.                                             *)
(***************************************************************************)
StrBearer == <<"B","e","a","r","e","r"," ">>
StrKey == <<"k","1">>
StrOtherKey == <<"k","2">>

\* the Authorization headers tried, "" for none; good says whether the
\* header is a Bearer credential with the configured key
AuthorizationHeaders ==
    {[text |-> <<>>, good |-> FALSE],
     [text |-> StrBearer \o StrKey, good |-> TRUE],
     [text |-> StrBearer \o <<" ">> \o StrKey \o <<" ">>, good |-> TRUE],
     [text |-> StrBearer \o StrOtherKey, good |-> FALSE],
     [text |-> StrBearer \o StrKey \o <<"2">>, good |-> FALSE],
     [text |-> StrBearer, good |-> FALSE],
     [text |-> StrKey, good |-> FALSE],
     [text |-> ToLower(StrBearer) \o StrKey, good |-> FALSE]}

\* the x-goog-api-key headers tried
ApiKeyHeaders ==
    {[text |-> <<>>, good |-> FALSE],
     [text |-> StrKey, good |-> TRUE],
     [text |-> StrOtherKey, good |-> FALSE],
     [text |-> StrKey \o <<"2">>, good |-> FALSE]}

\* strings.HasPrefix
HasPrefix(s, p) == Len(s) >= Len(p) /\ SubSeq(s, 1, Len(p)) = p

\* strings.TrimSpace
RECURSIVE TrimSpace(_)
TrimSpace(s) ==
    IF s = <<>> THEN s
    ELSE IF Head(s) = " " THEN TrimSpace(Tail(s))
    ELSE IF s[Len(s)] = " " THEN TrimSpace(SubSeq(s, 1, Len(s) - 1))
    ELSE s

\* a mutant of authorize: a Bearer header is accepted by its prefix alone
authorizeAnyBearer(key, ah, xk) ==
    \/ key = <<>>
    \/ ah # <<>> /\ HasPrefix(ah, StrBearer)
    \/ xk # <<>> /\ xk = key

\* Server.authorize; subtle.ConstantTimeCompare is 1 for equal byte strings
authorize(key, ah, xk) ==
    \/ key = <<>>
    \/ ah # <<>> /\ HasPrefix(ah, StrBearer)
                 /\ TrimSpace(SubSeq(ah, Len(StrBearer) + 1, Len(ah))) = key
    \/ xk # <<>> /\ xk = key

\* a request arrives at a routed handler
AuRequest ==
    /\ au.pc = "idle"
    /\ \E route \in {"models", "generate", "stream"}, method \in {"GET", "POST"},
          ah \in AuthorizationHeaders, xk \in ApiKeyHeaders :
          au' = [au EXCEPT !.pc = "routed",
                           !.req = [route |-> route, method |-> method, ah |-> ah,
                                    xk |-> xk]]
    /\ UNCHANGED <<dispatchVars, auOthers>>

\* Server.handleListModels: the method is checked, then the key
AuListModels ==
    /\ au.pc = "routed"
    /\ au.req.route = "models"
    /\ au' = IF au.req.method # "GET" THEN [au EXCEPT !.pc = "done", !.status = 405]
             ELSE IF ~authorize(au.key, au.req.ah.text, au.req.xk.text)
             THEN [au EXCEPT !.pc = "done", !.status = 401]
             ELSE [au EXCEPT !.pc = "done", !.status = 200, !.listed = TRUE]
    /\ UNCHANGED <<dispatchVars, auOthers>>

\* Server.handleModel: the key is checked, then the method; the path then
\* selects handleGenerateContent or handleStreamGenerateContent
AuModel ==
    /\ au.pc = "routed"
    /\ au.req.route \in {"generate", "stream"}
    /\ au' = IF ~authorize(au.key, au.req.ah.text, au.req.xk.text)
             THEN [au EXCEPT !.pc = "done", !.status = 401]
             ELSE IF au.req.method # "POST" THEN [au EXCEPT !.pc = "done", !.status = 405]
             ELSE [au EXCEPT !.pc = "done", !.dispatched = TRUE]
    /\ UNCHANGED <<dispatchVars, auOthers>>

InitAuth ==
    /\ DispatchIdle
    /\ ClsIdle
    /\ PkIdle
    /\ RsIdle
    /\ NmIdle
    /\ HcIdle
    /\ TkIdle
    /\ TsIdle
    /\ GqIdle
    /\ LimIdle
    /\ HdIdle
    /\ RstIdle
    /\ DpIdle
    /\ SsIdle
    /\ CnIdle
    /\ \E key \in {<<>>, StrKey} : au = [NoAu EXCEPT !.pc = "idle", !.key = key]

NextAuth ==
    \/ AuRequest
    \/ AuListModels
    \/ AuModel

SpecAuth == InitAuth /\ [][NextAuth]_vars

(***************************************************************************)
(* Server.handleStreamGenerateContent as the receiver of the streaming     *)
(* dispatch: its select over out, errs and ctx.Done().  hd.frames are the  *)
(* SSE frames written; a return runs the deferred cancel().                *)
(***************************************************************************)
\* the handler returns: defer cancel()
HdReturn(h) ==
    /\ hd' = [h EXCEPT !.pc = "done", !.ctxAtReturn = ctx]
    /\ IF ctx = "live"
       THEN ctx' = "canceled" /\ cancelPc' = pc /\ cancelAt' = Len(attempts)
       ELSE UNCHANGED ctxVars

\* case g, ok := <-out, ok: a data frame is written, or the write fails
HdRecvEvent ==
    /\ hd.pc = "select"
    /\ out # <<>>
    /\ recv' = Append(recv, Head(out))
    /\ out' = Tail(out)
    /\ \E writeOk \in BOOLEAN :
          IF writeOk
          THEN /\ hd' = [hd EXCEPT !.frames = Append(hd.frames,
                                       [event |-> "data", data |-> Head(out)])]
               /\ UNCHANGED ctxVars
          ELSE HdReturn([hd EXCEPT !.wfail = TRUE])
    /\ UNCHANGED <<cfgVars, mcVars, dispVars, up, outClosed, errsClosed, errRecv, histVars,
                   ret, hdOthers>>

\* case g, ok := <-out, !ok: return
HdOutClosed ==
    /\ hd.pc = "select"
    /\ out = <<>>
    /\ outClosed
    /\ HdReturn(hd)
    /\ UNCHANGED <<cfgVars, mcVars, dispVars, up, outerVars, callerVars, histVars, ret,
                   hdOthers>>

\* case e, ok := <-errs with an error, meeting the dispatcher's errs <- e:
\* the event: error frame with e.Error() is written, then return
HdRecvErr ==
    /\ hd.pc = "select"
    /\ ~hd.errsNil
    /\ pc \in {"send_err", "send_last"}
    /\ errRecv' = Append(errRecv, pend)
    /\ pc' = IF pc = "send_err" THEN "close_out" ELSE "close_errs"
    /\ \E writeOk \in BOOLEAN :
          IF writeOk
          THEN HdReturn([hd EXCEPT !.frames = Append(hd.frames,
                                      [event |-> "error", data |-> ErrorString(pend)])])
          ELSE HdReturn([hd EXCEPT !.wfail = TRUE])
    /\ UNCHANGED <<cfgVars, mcVars, start, k, lastErr, sentAny, upErrsNil, pend, path, up,
                   outerVars, recv, histVars, ret, hdOthers>>

\* case e, ok := <-errs, !ok: errs = nil; continue
HdErrsClosed ==
    /\ hd.pc = "select"
    /\ ~hd.errsNil
    /\ errsClosed
    /\ hd' = [hd EXCEPT !.errsNil = TRUE]
    /\ UNCHANGED <<dispatchVars, hdOthers>>

\* case <-ctx.Done(): return
HdCtxDone ==
    /\ hd.pc = "select"
    /\ ctx # "live"
    /\ HdReturn(hd)
    /\ UNCHANGED <<cfgVars, mcVars, dispVars, up, outerVars, callerVars, histVars, ret,
                   hdOthers>>

NextHandler ==
    \/ SPickStart
    \/ SAttempt
    \/ SRecvEvent
    \/ SForward
    \/ SUpOutClosed
    \/ SPendingErr
    \/ SPendingNone
    \/ SPendingCtx
    \/ SRecvUpErr
    \/ SUpErrsClosed
    \/ SCtxDone
    \/ SCloseOut
    \/ SCloseErrs
    \/ SExhausted
    \/ UpDo
    \/ UpReadLine
    \/ UpReadEnd
    \/ UpCloseErrs
    \/ UpCloseOut
    \/ HdRecvEvent
    \/ HdOutClosed
    \/ HdRecvErr
    \/ HdErrsClosed
    \/ HdCtxDone
    \/ Cancel

SpecHandler == Init /\ [][NextHandler]_vars

(***************************************************************************)
(* The round-robin counter across restarts: a process builds a MultiClient *)
(* over the state store, calls pickStart some times, and is replaced by a  *)
(* new process built over the same store.  rst.base is the counter the     *)
(* process began with; prevBase, prevPicks, prevWrite describe the process *)
(* before it.                                                              *)
(***************************************************************************)
\* largest counter value the store holds at the beginning
MaxCounter == 3
\* largest number of pickStart calls of one process
MaxPicks == 3
\* number of processes run one after the other
MaxLives == 2

\* a mutant of RstConstruct: the new process starts from zero
RstConstructFromZero ==
    /\ rst.pc = "new"
    /\ rr' = 0
    /\ rst' = [rst EXCEPT !.pc = "run", !.base = 0,
                          !.restored = store.present /\ store.rr >= 0]
    /\ UNCHANGED <<cfgVars, slot, store, ctxVars, dispVars, up, outerVars, callerVars,
                   histVars, ret, rstOthers>>

\* NewMultiClient's end: mc.rr is zero unless GetRRCounter answers with a
\* stored value and no error
RstConstruct ==
    /\ rst.pc = "new"
    /\ \E readOk \in BOOLEAN :
          LET found == store.present /\ readOk /\ store.rr >= 0
              v == IF found THEN store.rr ELSE 0 IN
          /\ rr' = v
          /\ rst' = [rst EXCEPT !.pc = "run", !.base = v, !.restored = found]
    /\ UNCHANGED <<cfgVars, slot, store, ctxVars, dispVars, up, outerVars, callerVars,
                   histVars, ret, rstOthers>>

\* one call of pickStart; SetRRCounter may fail, which is ignored
RstPick ==
    /\ rst.pc = "run"
    /\ rst.picks < MaxPicks
    /\ \E writeOk \in BOOLEAN :
          /\ pickStart(writeOk)
          /\ rst' = [rst EXCEPT !.picks = rst.picks + 1,
                                !.starts = Append(rst.starts, rr % n),
                                !.lastWrite = IF store.present /\ writeOk
                                              THEN "ok" ELSE "failed"]
    /\ UNCHANGED <<cfgVars, slot, ctxVars, pc, k, lastErr, sentAny, upErrsNil, pend, path,
                   up, outerVars, callerVars, histVars, ret, rstOthers>>

\* the process ends and a new one begins: memory is lost, the store is kept
RstRestart ==
    /\ rst.pc = "run"
    /\ rst.life < MaxLives
    /\ rr' = 0
    /\ rst' = [rst EXCEPT !.pc = "new", !.life = rst.life + 1, !.picks = 0,
                          !.starts = <<>>, !.base = 0, !.restored = FALSE,
                          !.lastWrite = "none", !.prevBase = rst.base,
                          !.prevPicks = rst.picks, !.prevWrite = rst.lastWrite]
    /\ UNCHANGED <<cfgVars, slot, store, ctxVars, dispVars, up, outerVars, callerVars,
                   histVars, ret, rstOthers>>

InitRestart ==
    /\ n \in 1..MaxUnits
    /\ retries = 0
    /\ project = "proj"
    /\ mode = "stream"
    /\ rr = 0
    /\ slot = [u \in AllUnits |-> ""]
    /\ store \in {NoStore, EmptyStore} \cup {[EmptyStore EXCEPT !.rr = v] : v \in 0..MaxCounter}
    /\ RunIdle
    /\ ClsIdle
    /\ PkIdle
    /\ RsIdle
    /\ NmIdle
    /\ HcIdle
    /\ TkIdle
    /\ TsIdle
    /\ GqIdle
    /\ LimIdle
    /\ AuIdle
    /\ HdIdle
    /\ DpIdle
    /\ SsIdle
    /\ CnIdle
    /\ rst = [NoRst EXCEPT !.pc = "new"]

NextRestart ==
    \/ RstConstruct
    \/ RstPick
    \/ RstRestart

SpecRestart == InitRestart /\ [][NextRestart]_vars

(***************************************************************************)
(* CaClient.DiscoverProjectID: one run.  A doJSON call is one step: it     *)
(* returns an error, or decodes a reply, or (a non-2xx status that is not  *)
(* retried) returns nil with nothing decoded.  dp.now is the time in       *)
(* seconds since the polling deadline was set.                             *)
(***************************************************************************)
\* deadline := time.Now().Add(2 * time.Minute), in seconds
Deadline == 120
\* t := time.NewTimer(2 * time.Second), in seconds
PollSleep == 2
\* how long one onboardUser call may take, in seconds
CallDurations == {0, 50}
\* dp.onboards counts the onboardUser calls up to this number
MaxPollsCounted == 3

ErrDiscoverTimeout == [kind |-> "discoverTimeout", code |-> 0, body |-> "boom"]
ErrOnboardNoId == [kind |-> "onboardNoId", code |-> 0, body |-> "boom"]

\* cloudaicompanionProject of a loadCodeAssist reply, as raw JSON
LoadProjects ==
    {[kind |-> "absent", id |-> ""], [kind |-> "null", id |-> ""],
     [kind |-> "number", id |-> ""],
     [kind |-> "string", id |-> "pl"], [kind |-> "string", id |-> ""],
     [kind |-> "object", id |-> "pl"], [kind |-> "object", id |-> ""]}

\* allowedTiers of a loadCodeAssist reply
LoadTiers ==
    {<<>>,
     <<[id |-> "legacy-tier", isDefault |-> FALSE],
       [id |-> "standard-tier", isDefault |-> TRUE]>>,
     <<[id |-> "", isDefault |-> TRUE], [id |-> "standard-tier", isDefault |-> TRUE],
       [id |-> "legacy-tier", isDefault |-> TRUE]>>,
     <<[id |-> "legacy-tier", isDefault |-> FALSE]>>}

\* var lr loadResp, before anything is decoded into it
ZeroLoadResp == [project |-> [kind |-> "absent", id |-> ""], tiers |-> <<>>]

LoadReplies == [project : LoadProjects, tiers : LoadTiers]

\* var or onboardResp, before anything is decoded into it
ZeroOnboardResp == [done |-> FALSE, id |-> ""]

OnboardReplies == [done : BOOLEAN, id : {"", "po"}]

\* what doJSON may return for a call: err, and the value left in out;
\* status is the status of the last answer (0: none).  A status outside 2xx
\* is an error if it is 401, 429 or 5xx; any other is returned as nil.
DoJsonOutcomes(zero, replies) ==
    IF ctx # "live" THEN {[err |-> CtxErr, out |-> zero, status |-> 0]}
    ELSE {[err |-> ErrStatus(500, "boom"), out |-> zero, status |-> 500],
          [err |-> NoErr, out |-> zero, status |-> 403]}
         \cup {[err |-> NoErr, out |-> r, status |-> 200] : r \in replies}

\* a mutant of LoadProjectId: only the string form is accepted
LoadProjectIdStringOnly(lr) ==
    IF lr.project.kind = "string" THEN lr.project.id ELSE ""

\* the project id DiscoverProjectID takes from lr.CloudAICompanionProject:
\* a string, else an object's id, "" if neither gives a non-empty id
LoadProjectId(lr) ==
    IF lr.project.kind \in {"absent", "null"} THEN ""
    ELSE IF lr.project.kind = "string" /\ lr.project.id # "" THEN lr.project.id
    ELSE IF lr.project.kind = "object" /\ lr.project.id # "" THEN lr.project.id
    ELSE ""

\* tierID := "free-tier"; for _, t := range lr.AllowedTiers
\*     { if t.IsDefault && t.ID != "" { tierID = t.ID; break } }
RECURSIVE DefaultTier(_)
DefaultTier(tiers) ==
    IF tiers = <<>> THEN "free-tier"
    ELSE IF Head(tiers).isDefault /\ Head(tiers).id # "" THEN Head(tiers).id
    ELSE DefaultTier(Tail(tiers))

\* return pid, err
DpReturn(d, pid, err) == [d EXCEPT !.pc = "done", !.pid = pid, !.err = err]

\* c.doJSON(ctx, "loadCodeAssist", ...) and what follows up to the loop
DpLoad ==
    /\ dp.pc = "load"
    /\ \E o \in DoJsonOutcomes(ZeroLoadResp, LoadReplies) :
          LET d == [dp EXCEPT !.loads = dp.loads + 1, !.lr = o.out, !.status = o.status,
                              !.first = IF dp.first = "" THEN "loadCodeAssist" ELSE dp.first]
          IN
          dp' = IF o.err # NoErr THEN DpReturn(d, "", o.err)
                ELSE IF LoadProjectId(o.out) # "" THEN DpReturn(d, LoadProjectId(o.out), NoErr)
                ELSE [d EXCEPT !.pc = "top", !.tier = DefaultTier(o.out.tiers), !.now = 0]
    /\ UNCHANGED <<dispatchVars, dpOthers>>

\* if time.Now().After(deadline) { return "", fmt.Errorf("discover project timeout") }
DpDeadline ==
    /\ dp.pc = "top"
    /\ dp.now > Deadline
    /\ dp' = DpReturn(dp, "", ErrDiscoverTimeout)
    /\ UNCHANGED <<dispatchVars, dpOthers>>

\* c.doJSON(ctx, "onboardUser", req, &or, ...) and the returns on its answer
DpOnboard ==
    /\ dp.pc = "top"
    /\ dp.now <= Deadline
    /\ \E o \in DoJsonOutcomes(ZeroOnboardResp, OnboardReplies), dur \in CallDurations :
          LET d == [dp EXCEPT !.onboards = IF dp.onboards < MaxPollsCounted
                                              THEN dp.onboards + 1 ELSE dp.onboards,
                              !.or = o.out, !.status = o.status,
                              !.sent = dp.sent \cup {dp.tier},
                              !.first = IF dp.first = "" THEN "onboardUser" ELSE dp.first,
                              !.now = dp.now + dur]
          IN
          dp' = IF o.err # NoErr THEN DpReturn(d, "", o.err)
                ELSE IF o.out.done
                THEN IF o.out.id # "" THEN DpReturn(d, o.out.id, NoErr)
                     ELSE DpReturn(d, "", ErrOnboardNoId)
                ELSE [d EXCEPT !.pc = "sleep"]
    /\ UNCHANGED <<dispatchVars, dpOthers>>

\* a mutant of DpTimer: the clock stands still
DpTimerNoClock ==
    /\ dp.pc = "sleep"
    /\ ctx = "live"
    /\ dp' = [dp EXCEPT !.pc = "top"]
    /\ UNCHANGED <<dispatchVars, dpOthers>>

\* case <-t.C: the timer fires after 2 s with the context still live (a
\* context that ends first is the only ready case of the select)
DpTimer ==
    /\ dp.pc = "sleep"
    /\ ctx = "live"
    /\ dp' = [dp EXCEPT !.pc = "top", !.now = dp.now + PollSleep]
    /\ UNCHANGED <<dispatchVars, dpOthers>>

\* case <-ctx.Done(): t.Stop(); return "", ctx.Err()
DpCtxDone ==
    /\ dp.pc = "sleep"
    /\ ctx # "live"
    /\ dp' = DpReturn(dp, "", CtxErr)
    /\ UNCHANGED <<dispatchVars, dpOthers>>

\* the caller's context is cancelled or runs out
DpCancel ==
    /\ dp.pc \notin {"off", "done"}
    /\ ctx = "live"
    /\ ctx' \in {"canceled", "deadline"}
    /\ cancelPc' = pc
    /\ cancelAt' = Len(attempts)
    /\ dp' = [dp EXCEPT !.cancelIn = dp.pc]
    /\ UNCHANGED <<cfgVars, mcVars, dispVars, up, outerVars, callerVars, histVars, ret,
                   dpOthers>>

InitDiscover ==
    /\ DispatchIdle
    /\ ClsIdle
    /\ PkIdle
    /\ RsIdle
    /\ NmIdle
    /\ HcIdle
    /\ TkIdle
    /\ TsIdle
    /\ GqIdle
    /\ LimIdle
    /\ AuIdle
    /\ HdIdle
    /\ RstIdle
    /\ SsIdle
    /\ CnIdle
    /\ dp = [NoDp EXCEPT !.pc = "load"]

\* the steps of the run itself
DpSteps ==
    \/ DpLoad
    \/ DpDeadline
    \/ DpOnboard
    \/ DpTimer
    \/ DpCtxDone

NextDiscover ==
    \/ DpSteps
    \/ DpCancel

SpecDiscover == InitDiscover /\ [][NextDiscover]_vars

\* every HTTP call returns, and the timer fires
SpecDiscoverFair == SpecDiscover /\ WF_vars(DpSteps)

(***************************************************************************)
(* parseSSEStream on its own: the lines of a body are scanned one by one.  *)
(* A line is [prefix, json]: json says what the text after the prefix is,  *)
(* as encoding/json sees it.  ss.calls lists the lines the callback was    *)
(* invoked for.                                                            *)
(***************************************************************************)
\* longest body explored, in lines
MaxLines == 3

ErrCallback == [kind |-> "callback", code |-> 0, body |-> "boom"]

\* what follows the prefix of a line: not JSON at all ("[DONE]" is such a
\* text), or a JSON value of some type; an object may have a response
\* member, and fits says whether the response (or, without one, the whole
\* object) decodes into gemini.GeminiAPIResponse
SsePayloads ==
    {[valid |-> FALSE, text |-> "[DONE]", type |-> "", response |-> "absent", fits |-> FALSE],
     [valid |-> FALSE, text |-> "{bad", type |-> "", response |-> "absent", fits |-> FALSE],
     [valid |-> TRUE, text |-> "", type |-> "number", response |-> "absent", fits |-> FALSE],
     [valid |-> TRUE, text |-> "", type |-> "null", response |-> "absent", fits |-> TRUE],
     [valid |-> TRUE, text |-> "", type |-> "object", response |-> "absent", fits |-> TRUE],
     [valid |-> TRUE, text |-> "", type |-> "object", response |-> "present", fits |-> TRUE],
     [valid |-> TRUE, text |-> "", type |-> "object", response |-> "present", fits |-> FALSE]}

NoPayload == [valid |-> FALSE, text |-> "", type |-> "", response |-> "absent", fits |-> FALSE]

SseLines ==
    {[prefix |-> "", json |-> NoPayload], [prefix |-> ":", json |-> NoPayload],
     [prefix |-> "event: ", json |-> NoPayload]}
    \cup {[prefix |-> "data: ", json |-> p] : p \in SsePayloads}

\* a mutant of ParseLine: only the envelope form is delivered
ParseLineEnvelopeOnly(line) ==
    IF line.prefix = "" \/ line.prefix = ":" THEN "skip"
    ELSE IF line.prefix # "data: " THEN "skip"
    ELSE IF line.json.text = "[DONE]" THEN "skip"
    ELSE IF ~(line.json.valid /\ line.json.type \in {"object", "null"}) THEN "skip"
    ELSE IF line.json.response = "present" /\ line.json.fits THEN "deliver"
    ELSE "skip"

\* the body of parseSSEStream's loop for one line: whether the callback is
\* reached.  json.Unmarshal into map[string]json.RawMessage accepts an
\* object or null only.
ParseLine(line) ==
    IF line.prefix = "" \/ line.prefix = ":" THEN "skip"
    ELSE IF line.prefix # "data: " THEN "skip"
    ELSE IF line.json.text = "[DONE]" THEN "skip"
    ELSE IF ~(line.json.valid /\ line.json.type \in {"object", "null"}) THEN "skip"
    ELSE IF line.json.response = "present"
    THEN IF line.json.fits THEN "deliver" ELSE "skip"
    ELSE IF line.json.fits THEN "deliver" ELSE "skip"

\* br.Scan() returned a line: the context test, then the line's handling
SseScan ==
    /\ ss.pc = "scan"
    /\ ss.pos < Len(ss.lines)
    /\ IF ctx # "live"
       THEN ss' = [ss EXCEPT !.pc = "done", !.err = CtxErr]
       ELSE IF ParseLine(ss.lines[ss.pos + 1]) = "skip"
       THEN ss' = [ss EXCEPT !.pos = ss.pos + 1]
       ELSE \E cbOk \in BOOLEAN :
               ss' = [ss EXCEPT !.pos = ss.pos + 1,
                                !.calls = Append(ss.calls, ss.pos + 1),
                                !.pc = IF cbOk THEN "scan" ELSE "done",
                                !.err = IF cbOk THEN NoErr ELSE ErrCallback]
    /\ UNCHANGED <<dispatchVars, ssOthers>>

\* br.Scan() returned false: return br.Err()
SseEnd ==
    /\ ss.pc = "scan"
    /\ ss.pos = Len(ss.lines)
    /\ ss' = [ss EXCEPT !.pc = "done",
                        !.err = IF ss.term = "eof" THEN NoErr ELSE ErrUnexpectedEOF]
    /\ UNCHANGED <<dispatchVars, ssOthers>>

\* the context ends while the body is read
SseCancel ==
    /\ ss.pc = "scan"
    /\ ctx = "live"
    /\ ctx' \in {"canceled", "deadline"}
    /\ UNCHANGED <<cfgVars, mcVars, cancelPc, cancelAt, dispVars, up, outerVars, callerVars,
                   histVars, ret, sideVars>>

InitSse ==
    /\ DispatchIdle
    /\ ClsIdle
    /\ PkIdle
    /\ RsIdle
    /\ NmIdle
    /\ HcIdle
    /\ TkIdle
    /\ TsIdle
    /\ GqIdle
    /\ LimIdle
    /\ AuIdle
    /\ HdIdle
    /\ RstIdle
    /\ DpIdle
    /\ CnIdle
    /\ \E lines \in SeqsUpTo(SseLines, MaxLines), term \in {"eof", "unexpectedEOF"} :
          ss = [NoSs EXCEPT !.pc = "scan", !.lines = lines, !.term = term]

NextSse ==
    \/ SseScan
    \/ SseEnd
    \/ SseCancel

SpecSse == InitSse /\ [][NextSse]_vars

(***************************************************************************)
(* The consumer of the stream tests: for g := range out { ... }, and only  *)
(* then err := <-errs.                                                     *)
(***************************************************************************)
\* for g := range out: an event is received
CnRecvEvent ==
    /\ cn.pc = "range"
    /\ out # <<>>
    /\ recv' = Append(recv, Head(out))
    /\ out' = Tail(out)
    /\ UNCHANGED <<sideVars, cfgVars, mcVars, ctxVars, dispVars, up, outClosed, errsClosed,
                   errRecv, histVars, ret>>

\* for g := range out: out is closed and empty, the loop ends
CnOutClosed ==
    /\ cn.pc = "range"
    /\ out = <<>>
    /\ outClosed
    /\ cn' = [cn EXCEPT !.pc = "errs"]
    /\ UNCHANGED <<dispatchVars, cnOthers>>

\* err := <-errs, meeting the dispatcher's errs <- e
CnRecvErr ==
    /\ cn.pc = "errs"
    /\ pc \in {"send_err", "send_last"}
    /\ errRecv' = Append(errRecv, pend)
    /\ pc' = IF pc = "send_err" THEN "close_out" ELSE "close_errs"
    /\ cn' = [cn EXCEPT !.pc = "done"]
    /\ UNCHANGED <<cfgVars, mcVars, ctxVars, start, k, lastErr, sentAny, upErrsNil, pend,
                   path, up, outerVars, recv, histVars, ret, cnOthers>>

\* err := <-errs on the closed errs: nil
CnErrsClosed ==
    /\ cn.pc = "errs"
    /\ errsClosed
    /\ cn' = [cn EXCEPT !.pc = "done"]
    /\ UNCHANGED <<dispatchVars, cnOthers>>

NextConsumer ==
    \/ SPickStart
    \/ SAttempt
    \/ SRecvEvent
    \/ SForward
    \/ SUpOutClosed
    \/ SPendingErr
    \/ SPendingNone
    \/ SPendingCtx
    \/ SRecvUpErr
    \/ SUpErrsClosed
    \/ SCtxDone
    \/ SCloseOut
    \/ SCloseErrs
    \/ SExhausted
    \/ UpDo
    \/ UpReadLine
    \/ UpReadEnd
    \/ UpCloseErrs
    \/ UpCloseOut
    \/ CnRecvEvent
    \/ CnOutClosed
    \/ CnRecvErr
    \/ CnErrsClosed
    \/ Cancel

SpecConsumer == Init /\ [][NextConsumer]_vars

(***************************************************************************)
(* What the caller of a streaming dispatch observes.                       *)
(***************************************************************************)
\* the events the dispatcher has put on the outer events channel, in order
Forwarded == recv \o out

IsPrefix(s, t) ==
    Len(s) <= Len(t) /\ \A i \in 1..Len(s) : s[i] = t[i]

\* the i-th event of the stream of attempt a
Event(a, i) == [k |-> a, i |-> i]

\* the upstream stream of the last attempt made has ended without an error
UpstreamEndedClean == up.pc = "exit" /\ up.err = NoErr

\* the stream failed: its upstream reported an error, the dispatcher took the
\* cancellation case, or the attempts ran out on a failure
StreamFailed ==
    \/ up.err # NoErr
    \/ path = "ctx"
    \/ (k >= Total /\ lastErr # NoErr)

\* the dispatcher's positions inside the inner loop of one upstream stream
Draining == {"select", "forward", "pending"}

\* upstream bodies of the stream tests
EofBeforeAnyEvent == Reply("ok", 200, "boom", DataLines(0), "unexpectedEOF", "resp")
OneEventThenEof == Reply("ok", 200, "boom", DataLines(1), "unexpectedEOF", "resp")
TwoEvents == Reply("ok", 200, "boom", DataLines(2), "eof", "resp")

(***************************************************************************)
(* Claims about the streaming dispatch.                                    *)
(***************************************************************************)
\* C1: on every path that delivers an error, the outer events channel is
\* closed only after the error was received from the outer error channel:
\* while the dispatcher is still at the send of an error, out is open.
C1_OutClosedOnlyAfterError ==
    pc \in {"send_err", "send_last"} => ~outClosed

\* C2: a streaming dispatch delivers at most one error at any time, and when
\* it has returned it has delivered exactly one error if the stream failed
\* and none if it completed cleanly.
C2_ExactlyOneError ==
    /\ Len(errRecv) <= 1
    /\ pc = "done" => (Len(errRecv) = 1 <=> StreamFailed)

C2_Witness ==
    /\ pc = "done"
    /\ StreamFailed
    /\ path = "uperr"
    /\ recv # <<>>
    /\ Len(errRecv) = 1

\* C3: once an event was forwarded to the caller no further upstream stream
\* is started, and all forwarded events come from one attempt's stream.
C3_SingleUnitAfterFirstEvent ==
    /\ [](\A i, j \in 1..Len(Forwarded) : Forwarded[i].k = Forwarded[j].k)
    /\ [][Forwarded # <<>> => calls' = calls]_vars

C3_Witness ==
    /\ pc = "done"
    /\ Forwarded # <<>>
    /\ isRetryable(up.err)
    /\ k < Total - 1
    /\ n > 1

\* C4: pool [u0, u1], retries >= 1, start u0: u0's stream fails with
\* unexpected EOF before any event and u1 streams two events cleanly; the
\* caller then observes exactly u1's two events and a clean close, no error.
C4_RotationBeforeFirstEvent ==
    (/\ pc = "done"
     /\ n = 2 /\ retries >= 1 /\ start = 0 /\ project # "" /\ ctx = "live"
     /\ calls # <<>>
     /\ calls[1].reply = EofBeforeAnyEvent
     /\ Len(calls) >= 2 => calls[2].reply = TwoEvents)
    => /\ Forwarded = <<Event(1, 1), Event(1, 2)>>
       /\ errRecv = <<>>
       /\ [i \in 1..Len(calls) |-> calls[i].unit] = <<0, 1>>

\* C5: pool [u0, u1], retries >= 1, start u0: u0's stream yields one event
\* and then fails with unexpected EOF; the caller observes that event and
\* then exactly one error, and u1 is never invoked.
C5_NoRotationAfterFirstEvent ==
    (/\ n = 2 /\ retries >= 1 /\ start = 0 /\ project # "" /\ ctx = "live"
     /\ calls # <<>>
     /\ calls[1].reply = OneEventThenEof)
    => /\ Len(calls) = 1
       /\ pc = "done" => Forwarded = <<Event(0, 1)>> /\ Len(errRecv) = 1

\* C6, as stated: when the upstream stream has ended without an error, the
\* dispatcher has forwarded every parsed event once and in order and has
\* closed both outer channels without an error.
C6_AllEventsThenCleanClose ==
    (pc = "done" /\ UpstreamEndedClean)
    => /\ Forwarded = up.sent
       /\ errRecv = <<>>
       /\ outClosed /\ errsClosed

\* C6, amended: when the upstream stream has ended without an error, the
\* dispatcher has forwarded every parsed event once and in order and closed
\* both outer channels without an error, unless the context was cancelled
\* before it returned: it may then have forwarded a prefix of the events and
\* delivered the context error instead.
C6_AllEventsUnlessCancelled ==
    (pc = "done" /\ UpstreamEndedClean)
    => /\ outClosed /\ errsClosed
       /\ \/ Forwarded = up.sent /\ errRecv = <<>>
          \/ ctx # "live" /\ errRecv = <<CtxErr>> /\ IsPrefix(Forwarded, up.sent)

C6_Witness ==
    /\ pc = "done"
    /\ UpstreamEndedClean
    /\ Len(up.sent) = MaxEvents
    /\ recv = up.sent
    /\ errRecv = <<>>

CalledUnits == [i \in 1..Len(calls) |-> calls[i].unit]

\* the statuses the specification lists as retryable
RetryableStatuses == {401, 403, 429, 500, 503}

\* the 4xx statuses the specification lists as permanent
PermanentStatuses == {400, 404}

\* C8: pool [u0, u1], retries >= 1, start u0: when u0's upstream answers a
\* retryable status and u1's answers 200 with a response, the dispatch
\* returns u1's response and each unit was called exactly once.
C8_RotateOnRetryableStatus ==
    (/\ pc = "done"
     /\ n = 2 /\ retries >= 1 /\ start = 0
     /\ Len(attempts) = Len(calls)
     /\ calls # <<>>
     /\ calls[1].err.kind = "status"
     /\ calls[1].err.code \in RetryableStatuses
     /\ Len(calls) >= 2 => calls[2].err = NoErr)
    => /\ CalledUnits = <<0, 1>>
       /\ ret = [resp |-> [unit |-> 1], err |-> NoErr]

C8_Witness ==
    /\ pc = "done"
    /\ n = 2 /\ retries >= 1 /\ start = 0
    /\ Len(attempts) = 2
    /\ Len(calls) = 2
    /\ calls[1].err = ErrStatus(403, "boom")
    /\ calls[2].err = NoErr
    /\ ret = [resp |-> [unit |-> 1], err |-> NoErr]

\* C9: the k-th attempt of a unary dispatch targets pool[(start + k) mod n],
\* at most 1 + retries attempts are made, and with retries = 0 a failure of
\* the start unit is returned without a call to another unit.
C9_AttemptOrderAndBudget ==
    /\ \A i \in 1..Len(attempts) : attempts[i] = (start + (i - 1)) % n
    /\ \A i \in 1..Len(calls) : calls[i].unit = (start + calls[i].k) % n
    /\ Len(attempts) <= 1 + retries
    /\ (retries = 0 /\ pc = "done" /\ ret.err # NoErr) =>
          /\ attempts = <<start>>
          /\ \A i \in 1..Len(calls) : calls[i].unit = start
          /\ ret.err = lastErr

C9_Witness ==
    /\ pc = "done"
    /\ n = 2
    /\ retries = 1
    /\ start = 1
    /\ attempts = <<1, 0>>
    /\ Len(calls) = 2
    /\ ret.err # NoErr

\* C10: when a unit's upstream answers a unary call with a permanent 4xx
\* status (400, 404), whatever the body, the dispatch returns that error at
\* once: no later call is made, and the error returned is that answer.
C10_PermanentStatusSurfaced ==
    \A i \in 1..Len(calls) :
        (calls[i].err.kind = "status" /\ calls[i].err.code \in PermanentStatuses)
        => /\ Len(calls) = i
           /\ pc = "done"
           /\ ret = [resp |-> NoResp, err |-> calls[i].err]

(***************************************************************************)
(* Claims about isRetryable.                                               *)
(***************************************************************************)
\* the error kinds that are transport failures
TransportKinds == {"timeout", "connreset", "tempfailure", "unexpectedEOF"}

\* C11: isRetryable answers true for an upstream status 401, 403, 429 or
\* 5xx, for a context deadline, an EOF and a transport failure (timeout,
\* connection reset, temporary failure, unexpected EOF), and false for a
\* context cancellation and for nil.
C11_Classification ==
    cls.res # "none" =>
        /\ (cls.err.kind = "status"
            /\ (cls.err.code \in {401, 403, 429}
                \/ (cls.err.code >= 500 /\ cls.err.code <= 599)))
           => cls.res = "yes"
        /\ cls.err.kind \in {"deadline", "EOF"} \cup TransportKinds => cls.res = "yes"
        /\ cls.err.kind \in {"nil", "canceled"} => cls.res = "no"

C11_Witness ==
    /\ cls.err = ErrTempFailure
    /\ cls.res = "yes"

(***************************************************************************)
(* More claims about the unary dispatch.                                   *)
(***************************************************************************)
\* the context was cancelled where an attempt meets it: during a generate
\* call, or before an attempt that the budget still allows
CancelHitsAttempt ==
    /\ ctx = "canceled"
    /\ cancelPc = "call" \/ cancelAt < Total

\* C12: once the context has been cancelled, the unary dispatch returns the
\* cancellation error and begins no attempt beyond the one that met the
\* cancellation, in its generate call or in its project-id resolution.
C12_CancelSurfacedNoFurtherUnit ==
    (pc = "done" /\ CancelHitsAttempt)
    => /\ ret.err = ErrCanceled
       /\ Len(attempts) <= cancelAt + (IF cancelPc = "call" THEN 0 ELSE 1)

(***************************************************************************)
(* Claims about both dispatches.                                           *)
(***************************************************************************)
\* the dispatch has ended with the error e
Surfaced(e) ==
    IF mode = "unary" THEN ret = [resp |-> NoResp, err |-> e] ELSE errRecv = <<e>>

\* C13: in both dispatches an attempt whose project-id resolution fails is
\* counted against the budget, makes no generation call, and is followed by
\* an attempt on the next unit; when the last attempt the budget allows ends
\* that way, the dispatch ends with that attempt's error.
C13_ResolutionFailureRotates ==
    /\ Len(resolved) = Len(attempts)
    /\ Len(attempts) <= Total
    /\ \A i \in 1..Len(resolved) :
          resolved[i] # NoErr =>
             /\ \A j \in 1..Len(calls) : calls[j].k # i - 1
             /\ i < Len(attempts) => attempts[i + 1] = (attempts[i] + 1) % n
             /\ i = Len(attempts) => pc \in {"loop", "send_last", "close_errs", "done"}
    /\ (pc = "done" /\ Len(resolved) = Total /\ Total > 0 /\ resolved[Total] # NoErr)
       => Surfaced(resolved[Total])

C13_Witness ==
    /\ pc = "done"
    /\ mode = "stream"
    /\ n = 2
    /\ Total = 2
    /\ resolved = <<NoErr, ErrDiscovery>>
    /\ Len(calls) = 1
    /\ errRecv = <<ErrDiscovery>>

(***************************************************************************)
(* Claims about pickStart.                                                 *)
(***************************************************************************)
\* the goroutines whose increment has happened, and those that have returned
Added == {c \in Callers : pk[c].pc # "idle"}
Returned == {c \in Callers : pk[c].pc = "done"}

\* C14: no two pickStart calls hold the same counter value, the values
\* handed out are consecutive, each start is (value after the increment - 1)
\* mod n, and calls whose values lie within n of each other get different
\* starts.
C14_DistinctStarts ==
    /\ \A c, d \in Added : c # d => pk[c].post # pk[d].post
    /\ {pk[c].post : c \in Added} = (rr - Cardinality(Added) + 1)..rr
    /\ \A c \in Returned : pk[c].start = (pk[c].post - 1) % n
    /\ \A c, d \in Returned :
          (c # d /\ pk[c].post - pk[d].post < n /\ pk[d].post - pk[c].post < n)
          => pk[c].start # pk[d].start

C14_Witness ==
    /\ n = 2
    /\ Returned = Callers
    /\ \E c, d \in Callers : pk[c].post = pk[d].post + 1 /\ pk[c].start # pk[d].start
    /\ \E c, d \in Callers : c # d /\ pk[c].start = pk[d].start

(***************************************************************************)
(* Claims about project-id resolution.                                     *)
(***************************************************************************)
\* the requests whose run of the discovery protocol succeeded
Discoverers == {c \in Callers : rs[c].discovered}

\* C15: among the requests resolved on one discovery-mode unit, concurrent
\* ones included, the discovery protocol runs to success at most once.
C15_DiscoveryAtMostOnce ==
    Cardinality(Discoverers) <= 1

\* C16: a request that begins when no other request is being resolved and
\* after a request has returned a discovered project id, returns one such
\* id without an error and without running the discovery protocol, with a
\* state store or without one.
C16_LaterRequestServedFromCache ==
    \A c \in Callers :
        (rs[c].pc = "done" /\ rs[c].after # {})
        => /\ rs[c].err = NoErr
           /\ rs[c].pid \in rs[c].after
           /\ ~rs[c].discovered

C16_Witness ==
    /\ ~store.present
    /\ \E c, d \in Callers :
          /\ rs[c].pc = "done" /\ rs[d].pc = "done"
          /\ rs[d].discovered
          /\ rs[c].after = {rs[d].pid}
          /\ rs[c].pid = rs[d].pid
          /\ ~rs[c].discovered

(***************************************************************************)
(* Claims about the construction of the pool.                              *)
(***************************************************************************)
\* how many times the credPath occurs among the sources
SourcesAt(credPath) == Cardinality({j \in 1..Len(nm.sources) : nm.sources[j] = credPath})

\* how many built units of the credPath have, or have not, a stored project id
UnitsAt(credPath, preset) ==
    Cardinality({j \in 1..Len(nm.entries) :
                    nm.entries[j].path = credPath /\ nm.entries[j].preset = preset})

\* the projectIds list of the credPath, empty if the credPath is not mentioned
ListOf(credPath) == IF credPath \in DOMAIN nm.projectMap THEN nm.projectMap[credPath] ELSE <<>>

NonAuto(list) == {j \in 1..Len(list) : list[j] # "_auto"}
HasAuto(list) == \E j \in 1..Len(list) : list[j] = "_auto"

\* C17: when NewMultiClient has run, every source has one preset unit per
\* non-"_auto" entry of its projectIds list, holding these entries, and one
\* discovery-mode unit if "_auto" is in the list; a source not mentioned or
\* with an empty list has exactly one discovery-mode unit; the construction
\* fails if and only if no unit results.
C17_UnitsBuilt ==
    nm.pc = "done"
    => /\ \A credPath \in SourcePaths :
             LET list == ListOf(credPath) IN
             /\ UnitsAt(credPath, TRUE) = SourcesAt(credPath) * Cardinality(NonAuto(list))
             /\ UnitsAt(credPath, FALSE) =
                   SourcesAt(credPath) * (IF list = <<>> \/ HasAuto(list) THEN 1 ELSE 0)
             /\ {nm.entries[j].pid : j \in {x \in 1..Len(nm.entries) :
                                               /\ nm.entries[x].path = credPath
                                               /\ nm.entries[x].preset}}
                = IF SourcesAt(credPath) = 0 THEN {}
                  ELSE {list[j] : j \in NonAuto(list)}
       /\ \A j \in 1..Len(nm.entries) : nm.entries[j].path \in SourcePaths
       /\ (nm.err # NoErr) <=> (Len(nm.entries) = 0)

C17_Witness ==
    /\ nm.pc = "done"
    /\ nm.err = NoErr
    /\ nm.sources = <<"a.json", "b.json">>
    /\ DOMAIN nm.projectMap = {"a.json", "b.json"}
    /\ nm.projectMap["a.json"] = <<"_auto", "p1">>
    /\ nm.projectMap["b.json"] = <<>>
    /\ Len(nm.entries) = 3

(***************************************************************************)
(* Claims about a pool of one unit.                                        *)
(***************************************************************************)
\* every attempt resolved a project id and every call was answered with an
\* error the dispatch retries
KeepsFailingRetryably ==
    /\ \A i \in 1..Len(resolved) : resolved[i] = NoErr
    /\ \A i \in 1..Len(calls) : isRetryable(calls[i].err)

\* C18: with a pool of one unit and requestMaxRetries = r, a unary request
\* whose upstream keeps answering with a retryable error has called that
\* unit exactly 1 + r times when it returns, and returns the last error.
C18_SingleUnitRetried ==
    (pc = "done" /\ n = 1 /\ retries >= 0 /\ KeepsFailingRetryably)
    => /\ Len(calls) = 1 + retries
       /\ \A i \in 1..Len(calls) : calls[i].unit = 0
       /\ ret.err = calls[Len(calls)].err

C18_Witness ==
    /\ pc = "done"
    /\ n = 1
    /\ retries = 1
    /\ Len(calls) = 2
    /\ calls[1].unit = 0 /\ calls[1].err.kind = "status" /\ calls[1].err.code = 429
    /\ calls[2].unit = 0 /\ calls[2].err.kind = "status" /\ calls[2].err.code = 503
    /\ ret.err = calls[2].err

(***************************************************************************)
(* Claims about the upstream client.                                       *)
(***************************************************************************)
\* C19: when CaClient.GenerateContent has returned, it has called the HTTP
\* client exactly once, whatever the transport retry budget, and an answer
\* with a status outside 2xx, such as 429, is returned as that error.
C19_OneRequestPerCall ==
    (hc.op = "generate" /\ hc.pc = "done")
    => /\ hc.sends = 1
       /\ (ctx = "live" /\ hc.reply.do = "ok" /\ hc.reply.status >= 300)
             => hc.err = ErrStatus(hc.reply.status, hc.reply.body)

C19_Witness ==
    /\ hc.op = "generate"
    /\ hc.pc = "done"
    /\ hc.transportRetries = MaxTransportRetries
    /\ hc.reply.status = 429
    /\ hc.sends = 1
    /\ hc.err = ErrStatus(429, hc.reply.body)

(***************************************************************************)
(* Claims about the credential file.                                       *)
(***************************************************************************)
\* C20: at every instant, during and after a failed or interrupted
\* SaveRawTokenAtomic included, the credential path names a file holding a
\* complete credential JSON, and a reader that has read the path has read
\* the complete JSON that was there or the complete one being saved when it
\* opened the file: never a part of one, never nothing.
C20_ReaderSeesCompleteFile ==
    /\ \E v \in 0..MaxSaves : tk.files[tk.link] = Json(v)
    /\ tk.rpc = "done" => \E v \in tk.allowed : tk.got = Json(v)

C20_Witness ==
    /\ tk.rpc = "done"
    /\ tk.pc = "stopped"
    /\ tk.ver = 2
    /\ tk.link = 1
    /\ tk.files[2] = <<Json(2)[1]>>
    /\ tk.got = Json(1)
    /\ tk.allowed = {1, 2}

(***************************************************************************)
(* Claims about the persisting token source.                               *)
(***************************************************************************)
\* the last Token call returned a token whose access token or expiry is
\* not the last known one
ReturnedDiffers ==
    /\ ~ts.last.err
    /\ \/ ts.last.tok.at # ts.last.current.at
       \/ ts.last.tok.exp # ts.last.current.exp

\* the last Token call returned a token that changes the access token or
\* the expiry of the credential: an empty access token and a zero expiry
\* change nothing
CredentialChanged ==
    /\ ~ts.last.err
    /\ \/ ts.last.tok.at \notin {"", ts.last.current.at}
       \/ ts.last.tok.exp \notin {0, ts.last.current.exp}

\* C21 as stated: unless persistence is enabled and the returned access
\* token or expiry differs from the last known one, a Token call leaves
\* the file and the credential in memory as they were.
C21_OtherwiseNothingChanges ==
    (ts.calls > 0 /\ ~(ts.persist /\ ReturnedDiffers))
    => /\ ts.file = ts.last.file
       /\ ts.current = ts.last.current

\* C21 amended: a Token call saves the credential if and only if
\* persistence is enabled, the path is not empty and the token changes the
\* credential's access token or expiry; the credential in memory becomes
\* the updated one whenever the token changes it, with persistence or
\* without, and is untouched otherwise; the file changes only by a
\* successful save, after which it equals the credential in memory.
C21_SavesWhenCredentialChanges ==
    ts.calls > 0
    => /\ (ts.last.save # "none") <=> (ts.persist /\ ts.path # "" /\ CredentialChanged)
       /\ ts.current = IF CredentialChanged
                       THEN fromOAuth2Token(ts.last.tok, ts.last.current)
                       ELSE ts.last.current
       /\ ts.file = IF ts.last.save = "ok" THEN ts.current ELSE ts.last.file
       /\ ts.current.at # "" /\ ts.current.exp # 0

C21_Witness ==
    /\ ts.calls = 2
    /\ ts.persist
    /\ ts.last.save = "ok"
    /\ ts.last.tok.at = "a2"
    /\ ts.last.current.at = "a1"
    /\ ts.file = ts.current
    /\ ts.file.at = "a2"

(***************************************************************************)
(* Claims about the request sent upstream.                                 *)
(***************************************************************************)
\* C22: every unknown top-level field of the incoming request is present,
\* with the same value, in the request part of the payload CaClient sends.
C22_UnknownFieldsForwarded ==
    gq.pc = "sent"
    => \A x \in DOMAIN gq.data \ KnownFields :
          x \in DOMAIN gq.payload /\ gq.payload[x] = gq.data[x]

(***************************************************************************)
(* Claims about the HTTP front.                                            *)
(***************************************************************************)
\* the requests inside the routed handlers
Inside == {c \in Callers : lim.st[c] = "inside"}

\* C23: never more than maxConcurrentRequests requests are inside the
\* routed handlers; a request is answered 429, at its arrival and without
\* having entered the handlers, exactly if all slots were taken then.
C23_ConcurrencyLimited ==
    /\ Cardinality(Inside) <= lim.cap
    /\ lim.sem = Cardinality(Inside)
    /\ \A c \in Callers :
          /\ lim.st[c] = "429" => lim.seen[c] = lim.cap
          /\ lim.st[c] \in {"inside", "served", "panicked"} => lim.seen[c] < lim.cap

C23_Witness ==
    /\ lim.cap = 2
    /\ Cardinality(Inside) = 2
    /\ \E c \in Callers : lim.st[c] = "429"

\* the request that was handled carries neither a Bearer credential with
\* the configured key nor an x-goog-api-key header equal to it
CarriesNoKey == ~au.req.ah.good /\ ~au.req.xk.good

\* C24 as stated: with an authKey configured, a request carrying no
\* matching key is answered 401.
C24_NoKeyAnswered401 ==
    (au.pc = "done" /\ au.key # <<>> /\ CarriesNoKey) => au.status = 401

\* C24 amended: with an authKey configured, a request carrying no matching
\* key reaches neither the dispatcher nor the model list; it is answered
\* 401, except that /v1beta/models answers a method other than GET with
\* 405 before it looks at the key.  With no authKey configured no request
\* is answered 401.
C24_NoKeyNotAdmitted ==
    au.pc = "done"
    => /\ (au.key # <<>> /\ CarriesNoKey)
             => /\ ~au.dispatched /\ ~au.listed
                /\ au.status = IF au.req.route = "models" /\ au.req.method # "GET"
                               THEN 405 ELSE 401
       /\ au.key = <<>> => au.status # 401
       /\ (au.key = <<>> /\ au.req.method = "POST" /\ au.req.route # "models")
             => au.dispatched

C24_Witness ==
    /\ au.pc = "done"
    /\ au.key = StrKey
    /\ au.req.route = "stream"
    /\ au.req.method = "POST"
    /\ au.req.ah.text = StrBearer \o StrOtherKey
    /\ au.req.xk.text = StrKey \o <<"2">>
    /\ au.status = 401
    /\ ~au.dispatched

\* the event: error frames the handler has written
ErrorFrames == SelectSeq(hd.frames, LAMBDA f : f.event = "error")

\* C25: when the streaming dispatcher ends a stream with an error, the
\* exhaustion of all attempts included, and the handler has returned
\* (the client still being there: no cancellation before the return, no
\* failed write), the handler has written exactly one event: error frame,
\* with that error's message.
C25_OneErrorFrame ==
    (hd.pc = "done" /\ hd.ctxAtReturn = "live" /\ ~hd.wfail
        /\ path \in {"uperr", "exhausted"})
    => ErrorFrames = <<[event |-> "error", data |-> ErrorString(pend)]>>

\* the state store holds a project id for the unit
StoreHit == store.present /\ store.pid[ResolveUnit] # ""

\* request c has returned this pid without an error
ResolvedTo(r, pid) == r.pc = "done" /\ r.pid = pid /\ r.err = NoErr

\* what one step of request c inside getOrDiscoverProjectID may do
ResolveStepOk(c) ==
    LET r == rs[c]
        q == rs'[c] IN
    /\ (r.pc = "idle" /\ q.pc # "idle")
       => /\ slot' = slot /\ store' = store
          /\ IF slot[ResolveUnit] # ""
             THEN ResolvedTo(q, slot[ResolveUnit]) /\ ~q.discovered
             ELSE q.pc = "lookup"
    /\ (r.pc = "lookup" /\ q.pc # "lookup")
       => /\ store' = store
          /\ IF StoreHit
             THEN /\ ResolvedTo(q, store.pid[ResolveUnit]) /\ ~q.discovered
                  /\ slot' = [slot EXCEPT ![ResolveUnit] = store.pid[ResolveUnit]]
             ELSE q.pc = "discover" /\ slot' = slot
    /\ (r.pc = "discover" /\ q.pc # "discover")
       => /\ slot' = slot /\ store' = store
          /\ \/ q.pc = "done" /\ q.pid = "" /\ q.err # NoErr /\ ~q.discovered
             \/ q.pc = "cache" /\ q.pid # "" /\ q.discovered
    /\ (r.pc = "cache" /\ q.pc # "cache")
       => /\ slot' = [slot EXCEPT ![ResolveUnit] = r.pid]
          /\ store' = store
          /\ q.pid = r.pid
          /\ q.pc = IF store.present THEN "upsert" ELSE "done"
    /\ (r.pc = "upsert" /\ q.pc # "upsert")
       => /\ slot' = slot
          /\ store' \in {store, [store EXCEPT !.pid[ResolveUnit] = r.pid]}
          /\ ResolvedTo(q, r.pid)
    /\ q.discovered => q.pc \in {"cache", "upsert", "done"}

DiscoveryStores == {c \in Callers : rs[c].discovered /\ rs[c].pc \in {"upsert", "done"}}

\* C27: the unit's project-id slot is written at most once, under any
\* interleaving of concurrent requests.
C27_SlotWrittenAtMostOnce ==
    Cardinality(DiscoveryStores) <= 1

\* once the slot holds a non-empty value, that value never changes
SlotValueKept ==
    [][slot[ResolveUnit] # "" => slot'[ResolveUnit] = slot[ResolveUnit]]_vars

(***************************************************************************)
(* Claims about the round-robin counter across restarts.                   *)
(***************************************************************************)
\* the process has been built and has called pickStart at least once
HasPicked == rst.pc = "run" /\ rst.picks >= 1

\* C28 as stated: over a store that holds a counter, the first start of a
\* process that follows one with m >= 1 calls of pickStart is the
\* (m+1)-th start of the sequence.
C28_RestartContinuesSequence ==
    (HasPicked /\ rst.life > 1 /\ rst.prevPicks >= 1 /\ store.present)
    => rst.starts[1] = (rst.prevBase + rst.prevPicks) % n

\* C28: a process built over a store from which it has read the counter
\* value v starts at v mod |pool| and goes on from there; if the process
\* before it made m >= 1 calls of pickStart the last of which was
\* persisted, its first start is the (m+1)-th of the sequence.
C28_ResumesFromStoredCounter ==
    (HasPicked /\ rst.restored)
    => /\ \A i \in 1..rst.picks : rst.starts[i] = (rst.base + i - 1) % n
       /\ (rst.life > 1 /\ rst.prevWrite = "ok")
          => rst.starts[1] = (rst.prevBase + rst.prevPicks) % n

C28_Witness ==
    /\ HasPicked
    /\ rst.restored
    /\ rst.life > 1
    /\ rst.prevWrite = "ok"
    /\ rst.prevPicks = 1
    /\ n = 2
    /\ rst.starts[1] = 1

(***************************************************************************)
(* Claims about project-id discovery.                                      *)
(***************************************************************************)
\* the loadCodeAssist reply carries cloudaicompanionProject as a non-empty
\* string or as an object with an id
CarriesProject(lr) == lr.project.kind \in {"string", "object"} /\ lr.project.id # ""

\* the tier of the first allowedTiers entry that is the default and has an
\* id, "free-tier" if there is none
ChosenTier(tiers) ==
    LET defaults == {i \in 1..Len(tiers) : tiers[i].isDefault /\ tiers[i].id # ""} IN
    IF defaults = {} THEN "free-tier"
    ELSE tiers[CHOOSE i \in defaults : \A j \in defaults : i <= j].id

\* C29: a run of DiscoverProjectID calls loadCodeAssist first and exactly
\* once; a reply carrying a project id ends the run with that id and no
\* onboardUser call; otherwise onboardUser is polled, always with the chosen
\* tier, as long as the replies have done=false, and a reply with done=true
\* ends the run with its project id, or with an error if that id is empty.
C29_LoadOnceThenPoll ==
    /\ dp.first \in {"", "loadCodeAssist"}
    /\ dp.loads = IF dp.pc = "load" THEN 0 ELSE 1
    /\ (dp.pc # "load" /\ dp.err = NoErr /\ CarriesProject(dp.lr))
       => /\ dp.pc = "done"
          /\ dp.pid = dp.lr.project.id
          /\ dp.onboards = 0
    /\ dp.onboards > 0
       => /\ ~CarriesProject(dp.lr)
          /\ dp.sent = {ChosenTier(dp.lr.tiers)}
    /\ dp.pc = "sleep" => ~dp.or.done
    /\ dp.or.done
       => /\ dp.pc = "done"
          /\ IF dp.or.id # "" THEN dp.pid = dp.or.id /\ dp.err = NoErr
             ELSE dp.pid = "" /\ dp.err = ErrOnboardNoId
    /\ (dp.pc = "done" /\ dp.err = NoErr /\ dp.onboards > 0) => dp.or.done

C29_Witness ==
    /\ dp.pc = "done"
    /\ dp.loads = 1
    /\ dp.onboards >= 2
    /\ dp.sent = {"standard-tier"}
    /\ dp.pid = "po"

\* how a finished run has ended
DpEndings ==
    /\ (dp.or.done /\ dp.or.id # "") => (dp.pid = dp.or.id /\ dp.err = NoErr)
    /\ dp.err = ErrDiscoverTimeout => dp.now > Deadline
    /\ dp.cancelIn = "sleep" => dp.err = CtxErr

\* C30: provided each HTTP call returns, a run of DiscoverProjectID ends;
\* it ends with the project id when a reply with done=true carries one,
\* with the discovery timeout error once the deadline of two minutes has
\* passed at the top of the polling loop, and with the context's error when
\* the context ends during the sleep between two polls.
C30_PollingTerminates ==
    /\ <>(dp.pc = "done")
    /\ [](dp.pc = "done" => DpEndings)
    /\ (dp.pc = "top" /\ dp.now > Deadline)
          ~> (dp.pc = "done" /\ dp.err = ErrDiscoverTimeout)

C30_Witness ==
    /\ dp.pc = "done"
    /\ dp.err = ErrDiscoverTimeout
    /\ dp.onboards = MaxPollsCounted

(***************************************************************************)
(* Claims about WithRetries, as doJSON runs it.                            *)
(***************************************************************************)
\* what fn, doJSON's closure, returned for the last reply
LastFnErr ==
    IF hc.reply.do # "ok" THEN ErrConnReset
    ELSE IF JsonRetried(hc.reply.status) THEN ErrStatus(hc.reply.status, hc.reply.body)
    ELSE NoErr

\* WithRetries has called fn, and how it stands after the calls so far
RetriesState ==
    hc.op = "json"
    => /\ hc.sends <= hc.transportRetries + 1
       /\ (hc.pc \in {"call", "timer"} /\ hc.sends > 0) => LastFnErr # NoErr
       /\ (hc.pc = "done" /\ hc.err = NoErr)
          => hc.sends >= 1 /\ LastFnErr = NoErr
       /\ (hc.pc = "done" /\ hc.err \notin {NoErr, ErrCanceled, ErrDeadline})
          => hc.sends = hc.transportRetries + 1 /\ hc.err = LastFnErr
       /\ (hc.pc = "done" /\ hc.err \in {ErrCanceled, ErrDeadline})
          => ctx # "live" /\ hc.err = CtxErr /\ hc.sends <= hc.transportRetries

\* C31: WithRetries(ctx, max, baseDelay, fn) calls fn at most max + 1
\* times; it returns nil at the first nil result, the last error after
\* exactly max + 1 failed attempts, and the context's error, with no
\* further call of fn, once the context is done.
C31_AtMostMaxPlusOneCalls ==
    /\ []RetriesState
    /\ [][(hc.op = "json" /\ ctx # "live") => hc'.sends = hc.sends]_vars

C31_Witness ==
    /\ hc.op = "json"
    /\ hc.pc = "done"
    /\ ctx = "live"
    /\ hc.transportRetries = MaxTransportRetries
    /\ hc.sends = MaxTransportRetries + 1
    /\ hc.err = ErrStatus(429, hc.reply.body)

(***************************************************************************)
(* Claims about parseSSEStream.                                            *)
(***************************************************************************)
\* the lines among the first m that satisfy P, in input order
RECURSIVE LinesWhere(_, _)
LinesWhere(P(_), m) ==
    IF m = 0 THEN <<>>
    ELSE IF P(ss.lines[m]) THEN Append(LinesWhere(P, m - 1), m)
    ELSE LinesWhere(P, m - 1)

\* a `data: ` line whose payload is valid JSON
ValidJsonData(line) == line.prefix = "data: " /\ line.json.valid

\* a `data: ` line whose payload is a JSON object (or null) that decodes as
\* a response, or as an envelope whose response member decodes as one
ResponseData(line) ==
    /\ line.prefix = "data: "
    /\ line.json.valid
    /\ line.json.type \in {"object", "null"}
    /\ line.json.fits

\* C32 as stated: the callback has been invoked exactly once, in input
\* order, for each `data: ` line read whose payload is valid JSON.
C32_CallbackPerValidJsonLine ==
    ss.calls = LinesWhere(ValidJsonData, ss.pos)

\* C32: the callback is invoked exactly once, in input order, for each
\* `data: ` line whose payload is a JSON object (or null) that decodes as a
\* response or as an envelope holding one; every other line is skipped
\* without ending the stream, and a callback error ends the read with that
\* error.
C32_CallbackPerResponseLine ==
    /\ ss.calls = LinesWhere(ResponseData, ss.pos)
    /\ (ss.pc = "done" /\ ss.err \in {NoErr, ErrUnexpectedEOF}) => ss.pos = Len(ss.lines)
    /\ (ss.pc = "done" /\ ss.err = ErrCallback)
       => ss.calls # <<>> /\ ss.calls[Len(ss.calls)] = ss.pos
    /\ (ss.pc = "scan" /\ ss.pos > 0) => ss.err = NoErr

C32_Witness ==
    /\ ss.pc = "done"
    /\ ss.err = NoErr
    /\ Len(ss.lines) = 3
    /\ ss.lines[1].json.text = "{bad"
    /\ ss.lines[2].json.response = "present"
    /\ ss.lines[3].json.type = "object"
    /\ ss.calls = <<2, 3>>

\* the dispatcher goroutine is at one of its sends on the unbuffered errs
BlockedOnErrsSend == pc \in {"send_err", "send_last"}

\* C33: once the stream handler has returned, the dispatcher goroutine is
\* not left at a channel send that nobody will receive; it can still reach
\* its end with both outer channels closed.
C33_DispatcherNotLeftBlocked ==
    hd.pc = "done" => ~BlockedOnErrsSend

\* the same, for the handler returns other than the one on a closed out
NotLeftBlockedAfterCancel ==
    (hd.pc = "done" /\ ~outClosed) => ~BlockedOnErrsSend

\* the consumer waits in its range loop for an event or for out to be closed
WaitsOnOut == cn.pc = "range" /\ out = <<>> /\ ~outClosed

\* C34: the consumer that receives from out until it is closed and only
\* then from errs is never waiting for out while the dispatcher waits for
\* it at a send on errs that precedes close(out), the context being live.
C34_ConsumerNeverDeadlocks ==
    ~(WaitsOnOut /\ pc = "send_err" /\ ctx = "live")

(***************************************************************************)
(* Claims about the retry budget taken from the configuration.             *)
(***************************************************************************)
\* LoadConfig: if cfg.RequestMaxRetries == 0 { cfg.RequestMaxRetries = 3 }
LoadedRetries(v) == IF v = 0 THEN 3 ELSE v

\* the budgets a configuration file can give the dispatcher: Validate does
\* not look at requestMaxRetries
AcceptedRetries == {LoadedRetries(v) : v \in (-1)..3}

\* C35: for every requestMaxRetries that loading and validation accept,
\* negative ones included, a unary dispatch that has returned has returned
\* a response or an error, never (nil, nil).
C35_NeverNilNil ==
    (mode = "unary" /\ pc = "done" /\ retries \in AcceptedRetries)
    => (ret.resp # NoResp \/ ret.err # NoErr)

\* C36: once a helper call of DiscoverProjectID has received an answer
\* with a status outside 2xx, the run has ended with an error.
C36_Non2xxEndsDiscovery ==
    (dp.status # 0 /\ (dp.status < 200 \/ dp.status >= 300))
    => (dp.pc = "done" /\ dp.err # NoErr)

\* C37: after concurrent pickStart calls have all returned with every
\* store write succeeding, the counter in the state store equals the one
\* in memory.
C37_StoreEqualsCounter ==
    (Returned = Callers /\ \A c \in Callers : pk[c].wrote = "ok")
    => store.rr = rr

TokenCallsDone == \A c \in Callers : ts.conc[c].pc = "done"

\* C38: once concurrent Token calls on one persisting source have returned,
\* the credential in memory, and the file when every save succeeded, hold
\* the token the base source issued last.
C38_LatestTokenKept ==
    (TokenCallsDone /\ ts.issued > 0)
    => /\ ts.current.at = IssuedToken(ts.issued).at
       /\ (ts.persist /\ ts.path # "" /\ ~ts.saveFailed)
          => ts.file.at = IssuedToken(ts.issued).at

\* an applied token is never older than the one it replaces
NeverOlderOverNewer ==
    [][ts'.current.exp >= ts.current.exp]_vars

\* the request of c has returned an error
ResolveFailed(c) == rs[c].pc = "done" /\ rs[c].err.kind # "nil"

\* no request has obtained a project id from discovery
NothingDiscovered == \A c \in Callers : ~(rs[c].discovered /\ rs[c].pid # "")

\* the state store holds no project id for the unit
StoreMiss == ~store.present \/ store.pid[ResolveUnit] = ""

\* C39: a resolution that fails (discovery error or empty discovered id)
\* changes neither the unit's slot nor the state store, and while every
\* discovery has failed and the store has no id, the slot stays empty and
\* every request that has returned ran discovery itself and got its error.
C39_FailureCachesNothing ==
    /\ [](  (NothingDiscovered /\ StoreMiss)
           => /\ slot[ResolveUnit] = ""
              /\ \A d \in Callers : rs[d].pc = "done" => ResolveFailed(d))
    /\ [][\A c \in Callers :
            (rs[c].pc = "discover" /\ ResolveFailed(c)')
            => (slot' = slot /\ store' = store)]_vars
    /\ [][(slot' # slot \/ store' # store)
          => \E c \in Callers : /\ rs'[c] # rs[c]
                                 /\ rs'[c].err.kind = "nil"
                                 /\ rs'[c].pid # ""]_vars

\* two requests have failed on the unit, the second in discovery like the
\* first, and a third is in discovery again
C39_Witness ==
    /\ StoreMiss /\ store.present
    /\ ResolveFailed(1) /\ ResolveFailed(2)
    /\ rs[1].err # rs[2].err
    /\ rs[3].pc = "discover"
    /\ slot[ResolveUnit] = ""

\* C40: a request gives its slot back in the step in which its handler
\* returns or panics; the semaphore holds one element per request inside
\* the handlers, so it is empty once all of them have finished, and a
\* request is refused only while maxConcurrentRequests others are inside.
C40_SlotsReleased ==
    /\ [](lim.sem = Cardinality(Inside))
    /\ [](Inside = {} => lim.sem = 0)
    /\ [][\A c \in Callers :
            (lim.st[c] = "inside" /\ lim'.st[c] \in {"served", "panicked"})
            => lim'.sem = lim.sem - 1]_vars
    /\ [][\A c \in Callers :
            (lim.st[c] = "new" /\ lim'.st[c] = "429")
            => Cardinality(Inside) = lim.cap]_vars

\* with one slot, a request has panicked, another has been served, and a
\* third is inside the handlers
C40_Witness ==
    /\ lim.cap = 1
    /\ \E c \in Callers : lim.st[c] = "panicked"
    /\ \E c \in Callers : lim.st[c] = "served"
    /\ Cardinality(Inside) = lim.cap

====
